---- MODULE Spec2Model ----
(***************************************************************************)
(* Model of the Spotify request client (src/src/spotify.py): RetryBudget,  *)
(* Spotify._make_retryable_request, _send_request_and_coerce_errors and    *)
(* _send_request.  One step per suspension point of the coroutine: the     *)
(* call entry, the await of get_access_token, the await of the HTTP        *)
(* request, the synchronous handling of its outcome (classification and    *)
(* budget debits), and the await of _sleep.                                *)
(***************************************************************************)
EXTENDS Integers, Sequences, FiniteSets, TLC

\* ---------------------------------------------------------------- bounds
\* Retryable outcomes and token-provider failures explored per client in Spec.
MaxFailures == 2
\* How far above its initial allotment the model lets a budget climb.
MaxGain == 2
\* Calls to the token provider explored per client in RetrySpec.
MaxTokenCalls == 3
\* Subtract calls explored on a standalone RetryBudget.
MaxSubtracts == 4
\* Largest initial allotment and largest debit of a standalone RetryBudget.
MaxSeconds == 3
\* Calendar days the merge is explored over: dates are 1..MaxDate.
MaxDate == 4
\* Longest track list of a fetched playlist handed to one merge.
MaxTracks == 2
\* Merges explored on one cumulative playlist after its creation.
MaxMerges == 2
\* Pages the upstream serves for one paginated listing.
MaxPages == 2
\* Largest follower count of a playlist of a batch.
MaxFollowers == 1

\* ------------------------------------------------------ program constants
\* RetryBudget(seconds=300) of Spotify.__init__
OverallSeconds == 300
\* RetryBudget(seconds=3) of get_category_playlist_ids
CategoryBudgetSeconds == 3
\* RetryBudget(seconds=5) of FileUpdater._update_files_impl
PlaylistBudgetSeconds == 5
\* RetryableError.sleep_seconds default
DefaultSleepSeconds == 1

None == "None"

\* Retry-After header values the upstream sends with a 429: negative, zero,
\* small, and one that nearly spends the whole overall budget at once.
RetryAfterValues == {-2, 2, OverallSeconds - 3}
\* The values explored over a whole budget's worth of retries.
NonNegRetryAfterValues == {0, OverallSeconds - 3}

Urls == {"href", "next"}
ResponseTypes == {"JSON", "EMPTY"}
\* Statuses whose body the client reads, and statuses it classifies unread.
BodyStatuses == {200, 400, 403, 404}
UnreadStatuses == {401, 500, 503}
\* What `await response.json()` gives: a non-empty object without an "error"
\* key, a non-empty object {"error": {"message": "foo"}}, a falsy value
\* ({} or ""), or aiohttp.ContentTypeError.
Bodies == {"data", "error_foo", "empty", "ContentTypeError"}
TransportErrors == {"ClientConnectionError", "TimeoutError"}

\* An upstream outcome of one dispatch.
HttpResponses(ra) ==
    [kind : {"response"}, status : BodyStatuses, retry_after : {0}, body : Bodies]
    \cup [kind : {"response"}, status : UnreadStatuses, retry_after : {0}, body : {"empty"}]
    \cup [kind : {"response"}, status : {429}, retry_after : ra, body : {"empty"}]
TransportFailures ==
    [kind : TransportErrors, status : {0}, retry_after : {0}, body : {"empty"}]
Outcomes(ra) == HttpResponses(ra) \cup TransportFailures
NoResponse == [kind |-> None, status |-> 0, retry_after |-> 0, body |-> "empty"]

VARIABLES
    credentials,            \* "ok" or "missing": client_id / client_secret given
    access_token,           \* self._access_token: 0 is None, k the k-th token issued
    token_calls,            \* calls made to get_access_token
    overall_remaining,      \* self._overall_retry_budget._remaining_seconds
    failures,               \* retryable outcomes and provider failures so far
    request_retry_budget,   \* NoBudget or the RetryBudget the caller passed
    pc,                     \* position inside _make_retryable_request
    url,                    \* argument url
    expected_response_type, \* argument expected_response_type
    raise_if_request_fails, \* argument raise_if_request_fails
    response,               \* outcome of the latest dispatch of this call
    sent,                   \* [url, token] of the latest dispatch of this call
    sleep_seconds,          \* e.sleep_seconds while awaiting _sleep
    result,                 \* what the call returned or raised
    dispatches,             \* dispatches of this call
    sleeps,                 \* _sleep calls of this call
    slept_seconds,          \* sum of the arguments of those _sleep calls
    unauthorized,           \* 401 responses this client has received
    tokens_granted,         \* tokens get_access_token has returned to this client
    total_slept,            \* sum of the arguments of all _sleep calls of this client
    budget_use,             \* failures charged to, and sleeps made under, the
                            \*   per-request budget in hand
    budget,                 \* standalone RetryBudget: remaining seconds
    budget_raised,          \* standalone RetryBudget: subtract has raised, and
                            \*   no negative debit was made since
    last_subtract,          \* standalone RetryBudget: the latest subtract call
    subtracts,              \* standalone RetryBudget: subtract calls made
    prev_struct,            \* the CumulativePlaylist the latest update was called on
    new_struct,             \* the CumulativePlaylist the latest update returned
    today,                  \* argument today of the latest update
    playlist,               \* argument playlist of the latest update
    merges,                 \* update calls made on this cumulative playlist
    track_history,          \* per track ID, what those updates did to it
    run_pc,                 \* position of _update_files_impl and its callees
    auto_register,          \* argument auto_register of _update_files_impl
    registered,             \* playlist IDs in the registry
    playlist_ids,           \* playlist IDs _auto_register has collected so far
    category_ids,           \* get_category_playlist_ids: category_ids
    categories_left,        \* ... the sorted categories not finished yet
    to_fetch,               \* playlists_to_fetch not finished yet, in order
    playlist_data,          \* get_playlist: data, the playlist object it was sent
    track_list,             \* get_playlist: tracks, the batches received so far
    page,                   \* pages received in the current listing
    pages,                  \* the track pages the latest get_playlist received
    playlists,              \* playlists: what get_playlist returned, by ID
    unfetchable,            \* the playlists skipped, each with its error
    get_playlist_result,    \* "return" or the error of the latest get_playlist
    run_error,              \* the error that ended _update_files_impl, if any
    duplicates,             \* iterations of the duplicate-name loops still to run
    renamed,                \* playlists those loops gave a new unique_name
    skip_cumulative_playlists, \* argument skip_cumulative_playlists
    to_update,              \* playlists_to_update not processed yet, in order
    files                   \* the content of every output file on disk

client_vars == <<credentials, access_token, token_calls, overall_remaining,
                 failures, request_retry_budget, pc, url, expected_response_type,
                 raise_if_request_fails, response, sent, sleep_seconds, result,
                 dispatches, sleeps, slept_seconds, unauthorized, tokens_granted,
                 total_slept, budget_use>>
budget_vars == <<budget, budget_raised, last_subtract, subtracts>>
merge_vars == <<prev_struct, new_struct, today, playlist, merges, track_history>>
run_vars == <<run_pc, auto_register, registered, playlist_ids, category_ids,
              categories_left, to_fetch, playlist_data, track_list, page, pages,
              playlists,
              unfetchable, get_playlist_result, run_error>>
name_vars == <<duplicates, renamed>>
output_vars == <<skip_cumulative_playlists, to_update, files>>
non_client_vars == <<budget_vars, merge_vars, run_vars, name_vars, output_vars>>
vars == <<client_vars, non_client_vars>>

\* ------------------------------------------------------------ RetryBudget
\* RetryBudget.subtract: the new remaining seconds and whether it raises
\* RetryBudgetExceededError.
subtract_strict(remaining, seconds) ==
    [remaining |-> remaining - seconds, raised |-> remaining - seconds < 0]

subtract_never_raises(remaining, seconds) ==
    [remaining |-> remaining - seconds, raised |-> FALSE]

subtract_check_first(remaining, seconds) ==
    [remaining |-> remaining - seconds, raised |-> remaining <= 0]

subtract(remaining, seconds) ==
    [remaining |-> remaining - seconds, raised |-> remaining - seconds <= 0]

\* RetryBudget(seconds=s)
RetryBudget(seconds) == [given |-> TRUE, initial |-> seconds, remaining |-> seconds]
\* request_retry_budget=None
NoBudget == [given |-> FALSE, initial |-> 0, remaining |-> 0]

\* ---------------------------------------------------------- _send_request
\* error_message of `((data or {}).get("error") or {}).get("message")`
ErrorMessage(body) == IF body = "error_foo" THEN "foo" ELSE None

\* f"{error_message} ({status})"
ErrorInfo(body, status) == <<ErrorMessage(body), status>>

\* What a coroutine gives back: a returned value or a raised exception.  Every
\* exception carries sleep_seconds / refresh_access_token so that the fields
\* of RetryableError can be read uniformly.
Return(data) ==
    [kind |-> "return", error |-> None, data |-> data, info |-> <<>>,
     sleep_seconds |-> 0, refresh_access_token |-> FALSE]
Raise(error, info) ==
    [kind |-> "raise", error |-> error, data |-> None, info |-> info,
     sleep_seconds |-> 0, refresh_access_token |-> FALSE]

\* `data` of _send_request: None unless a JSON body is expected.
Data(r, expected) == IF expected = "JSON" THEN r.body ELSE None

send_request_retrying_404(r, expected, raise_if_fails) ==
    IF r.kind \in TransportErrors THEN Raise(r.kind, <<>>)
    ELSE IF r.status = 401 THEN Raise("InvalidAccessTokenError", <<>>)
    ELSE IF r.status = 429 THEN Raise("RateLimitedError", <<r.retry_after>>)
    ELSE IF r.status >= 500 \/ r.status = 404 THEN Raise("ServerError", <<r.status>>)
    ELSE IF expected = "JSON" /\ r.body = "ContentTypeError"
        THEN Raise("ContentTypeError", <<>>)
    ELSE IF expected = "JSON" /\ r.body = "empty"
        THEN Raise("UnexpectedEmptyResponseError", <<>>)
    ELSE IF r.status = 400
        THEN Raise("ResourceNotFoundError", ErrorInfo(Data(r, expected), r.status))
    ELSE IF r.status >= 400 /\ raise_if_fails
        THEN Raise("RequestFailedError", ErrorInfo(Data(r, expected), r.status))
    ELSE IF expected = "JSON" THEN Return(r.body)
    ELSE Return("{}")

_send_request(r, expected, raise_if_fails) ==
    IF r.kind \in TransportErrors THEN Raise(r.kind, <<>>)
    ELSE IF r.status = 401 THEN Raise("InvalidAccessTokenError", <<>>)
    ELSE IF r.status = 429 THEN Raise("RateLimitedError", <<r.retry_after>>)
    ELSE IF r.status >= 500 THEN Raise("ServerError", <<r.status>>)
    ELSE IF expected = "JSON" /\ r.body = "ContentTypeError"
        THEN Raise("ContentTypeError", <<>>)
    ELSE IF expected = "JSON" /\ r.body = "empty"
        THEN Raise("UnexpectedEmptyResponseError", <<>>)
    ELSE IF r.status >= 400 /\ (r.status = 400 \/ r.status = 404)
        THEN Raise("ResourceNotFoundError", ErrorInfo(Data(r, expected), r.status))
    ELSE IF r.status >= 400 /\ raise_if_fails
        THEN Raise("RequestFailedError", ErrorInfo(Data(r, expected), r.status))
    ELSE IF expected = "JSON" THEN Return(r.body)
    ELSE Return("{}")

\* RetryableError(message, sleep_seconds=1, refresh_access_token=False)
RetryableError(message, seconds, refresh) ==
    [kind |-> "raise", error |-> "RetryableError", data |-> None,
     info |-> message, sleep_seconds |-> seconds,
     refresh_access_token |-> refresh]

coerce_without_extra_second(r, expected, raise_if_fails) ==
    LET o == _send_request(r, expected, raise_if_fails) IN
    IF o.kind = "return" THEN o
    ELSE IF o.error = "InvalidAccessTokenError"
        THEN RetryableError(<<"Invalid access token">>, DefaultSleepSeconds, TRUE)
    ELSE IF o.error = "RateLimitedError"
        THEN RetryableError(<<"Rate limited">>, o.info[1], FALSE)
    ELSE IF o.error \in {"ServerError", "ContentTypeError",
                         "UnexpectedEmptyResponseError",
                         "ClientConnectionError", "TimeoutError"}
        THEN RetryableError(<<o.error>>, DefaultSleepSeconds, FALSE)
    ELSE o

coerce_without_refresh(r, expected, raise_if_fails) ==
    LET o == _send_request(r, expected, raise_if_fails) IN
    IF o.kind = "return" THEN o
    ELSE IF o.error = "InvalidAccessTokenError"
        THEN RetryableError(<<"Invalid access token">>, DefaultSleepSeconds, FALSE)
    ELSE IF o.error = "RateLimitedError"
        THEN RetryableError(<<"Rate limited">>, o.info[1] + 1, FALSE)
    ELSE IF o.error \in {"ServerError", "ContentTypeError",
                         "UnexpectedEmptyResponseError",
                         "ClientConnectionError", "TimeoutError"}
        THEN RetryableError(<<o.error>>, DefaultSleepSeconds, FALSE)
    ELSE o

coerce_without_timeout(r, expected, raise_if_fails) ==
    LET o == _send_request(r, expected, raise_if_fails) IN
    IF o.kind = "return" THEN o
    ELSE IF o.error = "InvalidAccessTokenError"
        THEN RetryableError(<<"Invalid access token">>, DefaultSleepSeconds, TRUE)
    ELSE IF o.error = "RateLimitedError"
        THEN RetryableError(<<"Rate limited">>, o.info[1] + 1, FALSE)
    ELSE IF o.error \in {"ServerError", "ContentTypeError",
                         "UnexpectedEmptyResponseError",
                         "ClientConnectionError"}
        THEN RetryableError(<<o.error>>, DefaultSleepSeconds, FALSE)
    ELSE o

coerce_server_error_refreshes(r, expected, raise_if_fails) ==
    LET o == _send_request(r, expected, raise_if_fails) IN
    IF o.kind = "return" THEN o
    ELSE IF o.error \in {"InvalidAccessTokenError", "ServerError"}
        THEN RetryableError(<<"Invalid access token">>, DefaultSleepSeconds, TRUE)
    ELSE IF o.error = "RateLimitedError"
        THEN RetryableError(<<"Rate limited">>, o.info[1] + 1, FALSE)
    ELSE IF o.error \in {"ContentTypeError", "UnexpectedEmptyResponseError",
                         "ClientConnectionError", "TimeoutError"}
        THEN RetryableError(<<o.error>>, DefaultSleepSeconds, FALSE)
    ELSE o

_send_request_and_coerce_errors(r, expected, raise_if_fails) ==
    LET o == _send_request(r, expected, raise_if_fails) IN
    IF o.kind = "return" THEN o
    ELSE IF o.error = "InvalidAccessTokenError"
        THEN RetryableError(<<"Invalid access token">>, DefaultSleepSeconds, TRUE)
    ELSE IF o.error = "RateLimitedError"
        THEN RetryableError(<<"Rate limited">>, o.info[1] + 1, FALSE)
    ELSE IF o.error = "ServerError"
        THEN RetryableError(<<"Server error", o.info[1]>>, DefaultSleepSeconds, FALSE)
    ELSE IF o.error = "ContentTypeError"
        THEN RetryableError(<<"Invalid response (invalid JSON)">>, DefaultSleepSeconds, FALSE)
    ELSE IF o.error = "UnexpectedEmptyResponseError"
        THEN RetryableError(<<"Invalid response (empty JSON)">>, DefaultSleepSeconds, FALSE)
    ELSE IF o.error = "ClientConnectionError"
        THEN RetryableError(<<"Connection problem">>, DefaultSleepSeconds, FALSE)
    ELSE IF o.error = "TimeoutError"
        THEN RetryableError(<<"Asyncio timeout">>, DefaultSleepSeconds, FALSE)
    ELSE o

\* ------------------------------------------------------------------- Init
NoResult ==
    [kind |-> None, error |-> None, data |-> None, info |-> <<>>,
     sleep_seconds |-> 0, refresh_access_token |-> FALSE]
NoSent == [url |-> None, token |-> 0]
NoUse == [failures |-> 0, sleeps |-> 0, slept |-> 0]
NoSubtract == [before |-> 0, seconds |-> 0, raised |-> FALSE, exhausted |-> FALSE]

\* Spotify.__init__: no token cached, the overall budget full.
ClientInit ==
    /\ credentials \in {"ok", "missing"}
    /\ access_token = 0
    /\ token_calls = 0
    /\ overall_remaining = RetryBudget(OverallSeconds).remaining
    /\ failures = 0
    /\ request_retry_budget = NoBudget
    /\ pc = "idle"
    /\ url = None
    /\ expected_response_type = "JSON"
    /\ raise_if_request_fails = TRUE
    /\ response = NoResponse
    /\ sent = NoSent
    /\ sleep_seconds = 0
    /\ result = NoResult
    /\ dispatches = 0
    /\ sleeps = 0
    /\ slept_seconds = 0
    /\ unauthorized = 0
    /\ tokens_granted = 0
    /\ total_slept = 0
    /\ budget_use = NoUse

\* No standalone RetryBudget in use.
NoBudgetInit ==
    /\ budget = 0
    /\ budget_raised = FALSE
    /\ last_subtract = NoSubtract
    /\ subtracts = 0

\* No cumulative playlist in use.
NoMergeInit ==
    /\ prev_struct = None
    /\ new_struct = None
    /\ today = 0
    /\ playlist = None
    /\ merges = 0
    /\ track_history = None

\* The output files: six per playlist and five for the whole archive
\* (FileManager.get_plain_path ... get_metadata_compact_json_br_path), a path
\* being <<kind, playlist_id>>, the playlist_id "" for the files of the archive.
PlaylistFiles ==
    {"plain", "pretty_json", "pretty_markdown", "cumulative_json",
     "cumulative_markdown", "followers_json"}
MetadataFiles ==
    {"index", "metadata_full_json", "metadata_compact_json",
     "metadata_full_json_br", "metadata_compact_json_br"}
Paths ==
    {<<kind, playlist_id>> : kind \in PlaylistFiles, playlist_id \in {"a", "b"}}
        \cup {<<kind, "">> : kind \in MetadataFiles}

\* A file content: the formatter that made it and what it was given.
Formatted(formatter, data) == [formatter |-> formatter, data |-> data]

\* The output files as the previous run left them.
PreviousFiles == [path \in Paths |-> Formatted("previous run", <<>>)]

\* No output stage in progress: every file is as the previous run left it.
NoOutputInit ==
    /\ skip_cumulative_playlists = FALSE
    /\ to_update = <<>>
    /\ files = PreviousFiles

\* No duplicate-name step in progress.
NoNameInit ==
    /\ duplicates = <<>>
    /\ renamed = {}

\* No run of the file updater in progress.
NoRunInit ==
    /\ NoNameInit
    /\ NoOutputInit
    /\ run_pc = None
    /\ auto_register = FALSE
    /\ registered = {}
    /\ playlist_ids = {}
    /\ category_ids = {}
    /\ categories_left = <<>>
    /\ to_fetch = <<>>
    /\ playlist_data = None
    /\ track_list = <<>>
    /\ page = 0
    /\ pages = <<>>
    /\ playlists = <<>>
    /\ unfetchable = <<>>
    /\ get_playlist_result = None
    /\ run_error = None

Init ==
    /\ ClientInit
    /\ NoBudgetInit
    /\ NoMergeInit
    /\ NoRunInit

\* ---------------------------------------------------------------- actions
\* A caller enters _make_retryable_request.  The per-request budget is absent,
\* a fresh RetryBudget, or the budget object of the previous call handed in
\* again (get_playlist passes one budget to all of its requests).
RequestBudgets ==
    {NoBudget, RetryBudget(CategoryBudgetSeconds), RetryBudget(PlaylistBudgetSeconds)}

StartRequest(u, expected, raise_if_fails, rb) ==
    /\ url' = u
    /\ expected_response_type' = expected
    /\ raise_if_request_fails' = raise_if_fails
    /\ request_retry_budget' = rb
    /\ response' = NoResponse
    /\ sent' = NoSent
    /\ sleep_seconds' = 0
    /\ result' = NoResult
    /\ dispatches' = 0
    /\ sleeps' = 0
    /\ slept_seconds' = 0
    /\ budget_use' = IF rb.given /\ rb = request_retry_budget THEN budget_use ELSE NoUse
    /\ pc' = "loop"
    /\ UNCHANGED <<credentials, access_token, token_calls, overall_remaining,
                   failures, unauthorized, tokens_granted, total_slept>>

\* Spotify.get_access_token as _make_retryable_request sees it: the n-th
\* token, or MissingCredentialError / AccessTokenError, which the loop does
\* not catch.
get_access_token(creds, provider_ok, n) ==
    IF creds = "missing" THEN Raise("MissingCredentialError", <<>>)
    ELSE IF ~provider_ok THEN Raise("AccessTokenError", <<>>)
    ELSE Return(n)

\* `if not self._access_token: self._access_token = await get_access_token()`
GetAccessToken(provider_ok) ==
    /\ pc = "loop"
    /\ access_token = 0
    /\ token_calls' = token_calls + 1
    /\ LET t == get_access_token(credentials, provider_ok, token_calls + 1) IN
        IF t.kind = "return"
        THEN /\ access_token' = t.data
             /\ tokens_granted' = tokens_granted + 1
             /\ UNCHANGED <<pc, result, failures>>
        ELSE /\ result' = t
             /\ pc' = "done"
             /\ failures' = failures + 1
             /\ UNCHANGED <<access_token, tokens_granted>>
    /\ UNCHANGED <<credentials, overall_remaining, request_retry_budget, url,
                   expected_response_type, raise_if_request_fails, response,
                   sent, sleep_seconds, dispatches, sleeps, slept_seconds,
                   unauthorized, total_slept, budget_use>>
    /\ UNCHANGED non_client_vars

\* One pass of the loop body from the dispatch to the await of _sleep:
\* `func(url=url, headers={"Authorization": f"Bearer {self._access_token}"})`
\* goes out, outcome r comes back and is classified and, when it is retryable,
\* the token is dropped if asked for and the budgets are debited, the overall
\* budget first.
Dispatch(r) ==
    /\ pc = "loop"
    /\ access_token # 0
    /\ response' = r
    /\ sent' = [url |-> url, token |-> access_token]
    /\ dispatches' = dispatches + 1
    /\ unauthorized' = IF r.kind = "response" /\ r.status = 401
                       THEN unauthorized + 1 ELSE unauthorized
    /\ LET e == _send_request_and_coerce_errors(
                    r, expected_response_type, raise_if_request_fails)
           overall == subtract(overall_remaining, e.sleep_seconds)
           request == subtract(request_retry_budget.remaining, e.sleep_seconds)
       IN
        IF e.error # "RetryableError"
        THEN /\ result' = e
             /\ pc' = "done"
             /\ UNCHANGED <<access_token, overall_remaining, request_retry_budget,
                            sleep_seconds, failures, budget_use>>
        ELSE /\ access_token' = IF e.refresh_access_token THEN 0 ELSE access_token
             /\ overall_remaining' = overall.remaining
             /\ failures' = failures + 1
             /\ IF overall.raised
                THEN /\ result' = Raise("OverallRetryBudgetExceededError",
                                        <<OverallSeconds, url>>)
                     /\ pc' = "done"
                     /\ UNCHANGED <<request_retry_budget, sleep_seconds, budget_use>>
                ELSE IF request_retry_budget.given
                THEN /\ request_retry_budget' =
                            [request_retry_budget EXCEPT !.remaining = request.remaining]
                     /\ budget_use' = [budget_use EXCEPT !.failures = @ + 1]
                     /\ IF request.raised
                        THEN /\ result' = Raise("RequestRetryBudgetExceededError",
                                                <<request_retry_budget.initial, url>>)
                             /\ pc' = "done"
                             /\ UNCHANGED sleep_seconds
                        ELSE /\ sleep_seconds' = e.sleep_seconds
                             /\ pc' = "sleep"
                             /\ UNCHANGED result
                ELSE /\ sleep_seconds' = e.sleep_seconds
                     /\ pc' = "sleep"
                     /\ UNCHANGED <<request_retry_budget, result, budget_use>>
    /\ UNCHANGED <<credentials, token_calls, url, expected_response_type,
                   raise_if_request_fails, sleeps, slept_seconds, tokens_granted,
                   total_slept>>
    /\ UNCHANGED non_client_vars

\* `await self._sleep(e.sleep_seconds)`, then back to the top of the loop.
Sleep ==
    /\ pc = "sleep"
    /\ sleeps' = sleeps + 1
    /\ slept_seconds' = slept_seconds + sleep_seconds
    /\ total_slept' = total_slept + sleep_seconds
    /\ budget_use' = IF request_retry_budget.given
                     THEN [budget_use EXCEPT !.sleeps = @ + 1,
                                             !.slept = @ + sleep_seconds]
                     ELSE budget_use
    /\ sleep_seconds' = 0
    /\ pc' = "loop"
    /\ UNCHANGED <<credentials, access_token, token_calls, overall_remaining,
                   failures, request_retry_budget, url, expected_response_type,
                   raise_if_request_fails, response, sent, result, dispatches,
                   unauthorized, tokens_granted>>
    /\ UNCHANGED non_client_vars

\* Is outcome r one the client retries (given the arguments of the call)?
Retryable(r) ==
    _send_request_and_coerce_errors(
        r, expected_response_type, raise_if_request_fails).error = "RetryableError"

\* The seconds a retryable outcome is charged.
Charge(r) ==
    _send_request_and_coerce_errors(
        r, expected_response_type, raise_if_request_fails).sleep_seconds

\* Any caller, any number of calls on one client: at most MaxFailures failures
\* over the client's life, and no charge that lifts a budget more than MaxGain
\* above its allotment.
Explored(r) ==
    /\ Retryable(r) => failures < MaxFailures
    /\ overall_remaining - Charge(r) <= OverallSeconds + MaxGain
    /\ request_retry_budget.given =>
        request_retry_budget.remaining - Charge(r)
            <= request_retry_budget.initial + MaxGain

Call ==
    /\ pc \in {"idle", "done"}
    /\ \E u \in Urls, expected \in ResponseTypes, raise_if_fails \in BOOLEAN,
          rb \in RequestBudgets \cup {request_retry_budget} :
        StartRequest(u, expected, raise_if_fails, rb)
    /\ UNCHANGED non_client_vars

Token ==
    \E provider_ok \in BOOLEAN :
        /\ get_access_token(credentials, provider_ok, 0).kind = "raise"
            => failures < MaxFailures
        /\ GetAccessToken(provider_ok)

Attempt == \E r \in Outcomes(RetryAfterValues) : Explored(r) /\ Dispatch(r)

Next == Call \/ Token \/ Attempt \/ Sleep

Spec == Init /\ [][Next]_vars

\* One call of _get_with_retry (GET, a JSON body expected, failures raised) on
\* a freshly constructed client, under any sequence of outcomes whose
\* Retry-After values are not negative.
FirstCall ==
    /\ pc = "idle"
    /\ \E u \in Urls, rb \in RequestBudgets : StartRequest(u, "JSON", TRUE, rb)
    /\ UNCHANGED non_client_vars

ProviderCall == \E provider_ok \in BOOLEAN : GetAccessToken(provider_ok)

AttemptNonNeg ==
    \E r \in Outcomes(NonNegRetryAfterValues) :
        /\ r.status = 401 => token_calls < MaxTokenCalls
        /\ Dispatch(r)

RetryNext == FirstCall \/ ProviderCall \/ AttemptNonNeg \/ Sleep

RetrySpec == Init /\ [][RetryNext]_vars

\* A RetryBudget on its own: RetryBudget(seconds=s) for a positive s, then any
\* sequence of subtract calls.
BudgetInit ==
    /\ ClientInit
    /\ NoMergeInit
    /\ NoRunInit
    /\ budget \in 1..MaxSeconds
    /\ budget_raised = FALSE
    /\ last_subtract = NoSubtract
    /\ subtracts = 0

\* budget_raised: a subtract has raised and no negative debit was made since.
BudgetSubtract(seconds) ==
    /\ subtracts < MaxSubtracts
    /\ LET r == subtract(budget, seconds) IN
        /\ budget' = r.remaining
        /\ last_subtract' = [before |-> budget, seconds |-> seconds,
                             raised |-> r.raised, exhausted |-> budget_raised]
        /\ budget_raised' = (r.raised \/ (budget_raised /\ seconds >= 0))
    /\ subtracts' = subtracts + 1
    /\ UNCHANGED <<client_vars, merge_vars, run_vars, name_vars, output_vars>>

BudgetNext == \E seconds \in (0 - MaxSeconds)..MaxSeconds : BudgetSubtract(seconds)

BudgetSpec == BudgetInit /\ [][BudgetNext]_vars

\* ------------------------------------------------- playlist_types: data
\* Optional[datetime.date]: dates are the days 1..MaxDate, None is NoDate.
NoDate == 0
Dates == 1..MaxDate

\* Optional[datetime.datetime]: a day and a time of day, or None.
NoDatetime == [given |-> FALSE, date |-> 0, time |-> 0]
Datetime(d, t) == [given |-> TRUE, date |-> d, time |-> t]
\* datetime.datetime.date()
date(dt) == dt.date

TrackIDs == {"t1", "t2"}

\* What the upstream or a saved file says about a track: `old` is the
\* metadata a track was archived with, `new` the metadata it is fetched with.
\* The two differ in every field, and the four of them decide the sort order
\* by name, by duration and by track ID.
TrackUrl(id, version) ==
    IF version = "old" THEN <<"http:", "open.spotify.com", "track", id>>
    ELSE <<"https:", "open.spotify.com", "track", id>>
TrackName(id, version) ==
    CASE id = "t1" /\ version = "old" -> "b"
      [] id = "t1" /\ version = "new" -> "A"
      [] id = "t2" /\ version = "old" -> "a"
      [] id = "t2" /\ version = "new" -> "B"
Album(id, version) ==
    [url |-> <<"album", version>>, name |-> <<"album of", id, version>>]
Artist(name) == [url |-> <<"artist", name>>, name |-> name]
TrackArtists(id, version) ==
    CASE id = "t1" /\ version = "old" -> <<Artist("x")>>
      [] id = "t1" /\ version = "new" -> <<Artist("Y"), Artist("x")>>
      [] id = "t2" /\ version = "old" -> <<Artist("y"), Artist("x")>>
      [] id = "t2" /\ version = "new" -> <<Artist("X")>>
TrackDuration(id, version) ==
    CASE id = "t1" /\ version = "old" -> 1
      [] id = "t1" /\ version = "new" -> 2
      [] id = "t2" /\ version = "old" -> 1
      [] id = "t2" /\ version = "new" -> 1

\* playlist_types.Track
Track(id, version, added_at) ==
    [url |-> TrackUrl(id, version), name |-> TrackName(id, version),
     album |-> Album(id, version), artists |-> TrackArtists(id, version),
     duration_ms |-> TrackDuration(id, version), added_at |-> added_at]

\* playlist_types.CumulativeTrack
CumulativeTrack(id, version, date_added, date_added_asterisk, date_removed) ==
    [url |-> TrackUrl(id, version), name |-> TrackName(id, version),
     album |-> Album(id, version), artists |-> TrackArtists(id, version),
     duration_ms |-> TrackDuration(id, version), date_added |-> date_added,
     date_added_asterisk |-> date_added_asterisk, date_removed |-> date_removed]

\* Track.get_id / CumulativeTrack.get_id: `self.url.split("/")[-1]`
get_id(track) == track.url[Len(track.url)]

\* playlist_types.Playlist as the merge reads it
Playlist(tracks) ==
    [url |-> "new_playlist_url", original_name |-> "new_playlist_name",
     unique_name |-> "new_playlist_name (2)", description |-> "new_description",
     tracks |-> tracks]

\* playlist_types.CumulativePlaylist
CumulativePlaylist(url_, name, description, tracks, date_first_scraped, ids) ==
    [url |-> url_, name |-> name, description |-> description, tracks |-> tracks,
     date_first_scraped |-> date_first_scraped, published_playlist_ids |-> ids]

\* ----------------------------------------------- CumulativePlaylist.update
\* str.lower() on the names of the catalogue
lower(s) ==
    CASE s = "A" -> "a" [] s = "B" -> "b" [] s = "X" -> "x" [] s = "Y" -> "y"
      [] OTHER -> s

\* Python's ordering of the strings the sort key is made of.
StrRank(s) ==
    CASE s = "a" -> 1 [] s = "b" -> 2 [] s = "x" -> 3 [] s = "y" -> 4
      [] s = "t1" -> 5 [] s = "t2" -> 6

\* Python's ordering of tuples of strings: -1, 0 or 1.
RECURSIVE CompareTuples(_, _)
CompareTuples(a, b) ==
    IF a = <<>> /\ b = <<>> THEN 0
    ELSE IF a = <<>> THEN -1
    ELSE IF b = <<>> THEN 1
    ELSE IF StrRank(Head(a)) < StrRank(Head(b)) THEN -1
    ELSE IF StrRank(Head(a)) > StrRank(Head(b)) THEN 1
    ELSE CompareTuples(Tail(a), Tail(b))

\* `tuple(artist.name.lower() for artist in track.artists)`
ArtistNames(track) == [i \in DOMAIN track.artists |-> lower(track.artists[i].name)]

\* The sort key of update orders a before b.
KeyLess_without_duration(a, b) ==
    LET names == CompareTuples(<<lower(a.name)>>, <<lower(b.name)>>)
        artists == CompareTuples(ArtistNames(a), ArtistNames(b))
    IN  \/ names < 0
        \/ names = 0 /\ artists < 0
        \/ names = 0 /\ artists = 0 /\ StrRank(get_id(a)) < StrRank(get_id(b))

KeyLess(a, b) ==
    LET names == CompareTuples(<<lower(a.name)>>, <<lower(b.name)>>)
        artists == CompareTuples(ArtistNames(a), ArtistNames(b))
    IN  \/ names < 0
        \/ names = 0 /\ artists < 0
        \/ names = 0 /\ artists = 0 /\ a.duration_ms < b.duration_ms
        \/ names = 0 /\ artists = 0 /\ a.duration_ms = b.duration_ms
            /\ StrRank(get_id(a)) < StrRank(get_id(b))

\* sorted(updated_tracks, key=...): the tracks of the set in ascending order
\* of their keys (no two updated tracks have the same key: their IDs differ).
RECURSIVE sorted(_)
sorted(tracks) ==
    IF tracks = {} THEN <<>>
    ELSE LET first == CHOOSE a \in tracks : \A b \in tracks \ {a} : KeyLess(a, b)
         IN  <<first>> \o sorted(tracks \ {first})

\* `{track.get_id(): track for track in tracks}`: a later track replaces an
\* earlier one that has the same ID.
TracksByID(tracks) ==
    LET ids == {get_id(tracks[i]) : i \in DOMAIN tracks}
        last(id) == CHOOSE i \in DOMAIN tracks :
                        /\ get_id(tracks[i]) = id
                        /\ \A j \in DOMAIN tracks : get_id(tracks[j]) = id => j <= i
    IN  [id \in ids |-> tracks[last(id)]]

\* `new_data.added_at.date() if new_data.added_at else today`
date_added_always_today(new_data, today_) == today_

date_added_of(new_data, today_) ==
    IF new_data.added_at.given THEN date(new_data.added_at) ELSE today_

\* `old_data.date_added <= date_added`
keeps_old_strictly_earlier(old_date_added, date_added) == old_date_added < date_added

keeps_old_date_added(old_date_added, date_added) == old_date_added <= date_added

\* `old_data.date_removed or today`
date_removed_always_today(old_data, today_) == today_

date_removed_of(old_data, today_) ==
    IF old_data.date_removed # NoDate THEN old_data.date_removed ELSE today_

\* The body of the loop of update for one track ID: the fields set from
\* old_data, then overwritten from new_data.
UpdatedTrack_marking_unknown_dates(track_id, previous_tracks, current_tracks, today_) ==
    LET has_old == track_id \in DOMAIN previous_tracks
        has_new == track_id \in DOMAIN current_tracks
        old_data == previous_tracks[track_id]
        new_data == current_tracks[track_id]
        date_added == date_added_of(new_data, today_)
        keep_old == has_old /\ keeps_old_date_added(old_data.date_added, date_added)
    IN  IF has_new
        THEN [url |-> new_data.url, name |-> new_data.name,
              album |-> new_data.album, artists |-> new_data.artists,
              duration_ms |-> new_data.duration_ms,
              date_added |-> IF keep_old THEN old_data.date_added ELSE date_added,
              date_added_asterisk |->
                  IF keep_old THEN old_data.date_added_asterisk
                  ELSE ~new_data.added_at.given,
              date_removed |-> NoDate]
        ELSE [url |-> old_data.url, name |-> old_data.name,
              album |-> old_data.album, artists |-> old_data.artists,
              duration_ms |-> old_data.duration_ms,
              date_added |-> old_data.date_added,
              date_added_asterisk |-> old_data.date_added_asterisk,
              date_removed |-> date_removed_of(old_data, today_)]

\* ... keeping the asterisk when an earlier date_added is recorded
UpdatedTrack_keeping_asterisk(track_id, previous_tracks, current_tracks, today_) ==
    LET has_old == track_id \in DOMAIN previous_tracks
        has_new == track_id \in DOMAIN current_tracks
        old_data == previous_tracks[track_id]
        new_data == current_tracks[track_id]
        date_added == date_added_of(new_data, today_)
        keep_old == has_old /\ keeps_old_date_added(old_data.date_added, date_added)
    IN  IF has_new
        THEN [url |-> new_data.url, name |-> new_data.name,
              album |-> new_data.album, artists |-> new_data.artists,
              duration_ms |-> new_data.duration_ms,
              date_added |-> IF keep_old THEN old_data.date_added ELSE date_added,
              date_added_asterisk |-> has_old /\ old_data.date_added_asterisk,
              date_removed |-> NoDate]
        ELSE [url |-> old_data.url, name |-> old_data.name,
              album |-> old_data.album, artists |-> old_data.artists,
              duration_ms |-> old_data.duration_ms,
              date_added |-> old_data.date_added,
              date_added_asterisk |-> old_data.date_added_asterisk,
              date_removed |-> date_removed_of(old_data, today_)]

UpdatedTrack_keeping_date_removed(track_id, previous_tracks, current_tracks, today_) ==
    LET has_old == track_id \in DOMAIN previous_tracks
        has_new == track_id \in DOMAIN current_tracks
        old_data == previous_tracks[track_id]
        new_data == current_tracks[track_id]
        date_added == date_added_of(new_data, today_)
        keep_old == has_old /\ keeps_old_date_added(old_data.date_added, date_added)
    IN  IF has_new
        THEN [url |-> new_data.url, name |-> new_data.name,
              album |-> new_data.album, artists |-> new_data.artists,
              duration_ms |-> new_data.duration_ms,
              date_added |-> IF keep_old THEN old_data.date_added ELSE date_added,
              date_added_asterisk |->
                  IF keep_old THEN old_data.date_added_asterisk ELSE FALSE,
              date_removed |-> IF has_old THEN date_removed_of(old_data, today_)
                               ELSE NoDate]
        ELSE [url |-> old_data.url, name |-> old_data.name,
              album |-> old_data.album, artists |-> old_data.artists,
              duration_ms |-> old_data.duration_ms,
              date_added |-> old_data.date_added,
              date_added_asterisk |-> old_data.date_added_asterisk,
              date_removed |-> date_removed_of(old_data, today_)]

UpdatedTrack(track_id, previous_tracks, current_tracks, today_) ==
    LET has_old == track_id \in DOMAIN previous_tracks
        has_new == track_id \in DOMAIN current_tracks
        old_data == previous_tracks[track_id]
        new_data == current_tracks[track_id]
        date_added == date_added_of(new_data, today_)
        keep_old == has_old /\ keeps_old_date_added(old_data.date_added, date_added)
    IN  IF has_new
        THEN [url |-> new_data.url, name |-> new_data.name,
              album |-> new_data.album, artists |-> new_data.artists,
              duration_ms |-> new_data.duration_ms,
              date_added |-> IF keep_old THEN old_data.date_added ELSE date_added,
              date_added_asterisk |->
                  IF keep_old THEN old_data.date_added_asterisk ELSE FALSE,
              date_removed |-> NoDate]
        ELSE [url |-> old_data.url, name |-> old_data.name,
              album |-> old_data.album, artists |-> old_data.artists,
              duration_ms |-> old_data.duration_ms,
              date_added |-> old_data.date_added,
              date_added_asterisk |-> old_data.date_added_asterisk,
              date_removed |-> date_removed_of(old_data, today_)]

\* `set(current_tracks) | set(previous_tracks)`
updated_ids_current_only(current_tracks, previous_tracks) == DOMAIN current_tracks

updated_ids(current_tracks, previous_tracks) ==
    DOMAIN current_tracks \cup DOMAIN previous_tracks

\* CumulativePlaylist.update(self, today, playlist, published_playlist_ids)
update_extending_references(self, today_, playlist_, published_playlist_ids) ==
    LET current_tracks == TracksByID(playlist_.tracks)
        previous_tracks == TracksByID(self.tracks)
        updated_tracks ==
            {UpdatedTrack(track_id, previous_tracks, current_tracks, today_) :
                track_id \in updated_ids(current_tracks, previous_tracks)}
    IN  CumulativePlaylist(playlist_.url, playlist_.unique_name,
                           playlist_.description, sorted(updated_tracks),
                           self.date_first_scraped,
                           self.published_playlist_ids \o published_playlist_ids)

update_restamping_first_scraped(self, today_, playlist_, published_playlist_ids) ==
    LET current_tracks == TracksByID(playlist_.tracks)
        previous_tracks == TracksByID(self.tracks)
        updated_tracks ==
            {UpdatedTrack(track_id, previous_tracks, current_tracks, today_) :
                track_id \in updated_ids(current_tracks, previous_tracks)}
    IN  CumulativePlaylist(playlist_.url, playlist_.unique_name,
                           playlist_.description, sorted(updated_tracks),
                           today_, published_playlist_ids)

update(self, today_, playlist_, published_playlist_ids) ==
    LET current_tracks == TracksByID(playlist_.tracks)
        previous_tracks == TracksByID(self.tracks)
        updated_tracks ==
            {UpdatedTrack(track_id, previous_tracks, current_tracks, today_) :
                track_id \in updated_ids(current_tracks, previous_tracks)}
    IN  CumulativePlaylist(playlist_.url, playlist_.unique_name,
                           playlist_.description, sorted(updated_tracks),
                           self.date_first_scraped, published_playlist_ids)

\* ------------------------------------------------------------ merge runs
\* `added_at` of a fetched track: absent, or a moment of the first day or of
\* the day before the last.
AddedAtValues == {NoDatetime, Datetime(1, 1), Datetime(MaxDate - 1, 0)}

\* Track lists of a fetched playlist: up to MaxTracks freshly fetched tracks in
\* any order, the same track ID possibly more than once.
FetchedTracks == {Track(id, "new", at) : id \in TrackIDs, at \in AddedAtValues}
TrackLists == UNION {[1..n -> FetchedTracks] : n \in 0..MaxTracks}
DistinctTrackLists ==
    {l \in TrackLists : \A i, j \in DOMAIN l : get_id(l[i]) = get_id(l[j]) => i = j}

\* The tracks a cumulative file saved on or before day t may hold for one ID:
\* archived with the old metadata, added on a day a <= t, with or without the
\* asterisk, and either still present or removed on a day in a..t.
SavedTracks(id, t) ==
    {CumulativeTrack(id, "old", a, asterisk, r) :
        a \in 1..t, asterisk \in BOOLEAN, r \in {NoDate} \cup 1..t}
SavedOrAbsent(id, t) ==
    {{}} \cup {{track} : track \in {saved \in SavedTracks(id, t) :
                    saved.date_removed # NoDate =>
                        saved.date_added <= saved.date_removed}}
SavedTrackSets(t) ==
    {first \cup second : first \in SavedOrAbsent("t1", t),
                         second \in SavedOrAbsent("t2", t)}

\* CumulativePlaylist.from_json of a file an earlier run saved.
SavedPlaylists(t) ==
    {CumulativePlaylist("old_playlist_url", "old_playlist_name", "old_description",
                        sorted(s), 1, <<"oldPublishedPlaylistID">>) :
        s \in SavedTrackSets(t)}

\* `published_playlist_ids` handed to update
PublishedPlaylistIDs == {<<>>, <<"newPublishedPlaylistID">>}

\* What the updates of one cumulative playlist have done to each track ID so
\* far: whether the first playlist merged had it, whether an update found it
\* gone from the playlist, and how many updates recorded an earlier
\* date_added for it than the one before.
NoHistory == [id \in TrackIDs |-> [first |-> FALSE, removed |-> FALSE, lowered |-> 0]]

Recorded(history, self, t, playlist_, first_update) ==
    LET current_tracks == TracksByID(playlist_.tracks)
        previous_tracks == TracksByID(self.tracks)
    IN  [id \in TrackIDs |->
            LET has_old == id \in DOMAIN previous_tracks
                has_new == id \in DOMAIN current_tracks
            IN  [first |-> IF first_update THEN has_new ELSE history[id].first,
                 removed |-> history[id].removed \/ (has_old /\ ~has_new),
                 lowered |->
                    IF has_old /\ has_new
                        /\ UpdatedTrack(id, previous_tracks, current_tracks, t).date_added
                                < previous_tracks[id].date_added
                    THEN history[id].lowered + 1 ELSE history[id].lowered]]

\* `new_struct = prev_struct.update(today, playlist, ...)` on the cumulative
\* playlist the previous update (or the file, or the creation) left.
Update(t, tracks, ids) ==
    /\ prev_struct' = new_struct
    /\ today' = t
    /\ playlist' = Playlist(tracks)
    /\ new_struct' = update(new_struct, t, Playlist(tracks), ids)
    /\ merges' = merges + 1
    /\ track_history' = Recorded(track_history, new_struct, t, Playlist(tracks),
                                 merges = 0)
    /\ UNCHANGED <<client_vars, budget_vars, run_vars, name_vars, output_vars>>

\* One update of a cumulative playlist read from a saved file, with any
\* fetched playlist.
UpdateInit ==
    /\ ClientInit /\ credentials = "ok"
    /\ NoBudgetInit
    /\ NoRunInit
    /\ today \in Dates
    /\ new_struct \in SavedPlaylists(today)
    /\ prev_struct = new_struct
    /\ playlist = Playlist(<<>>)
    /\ merges = 0
    /\ track_history = NoHistory

UpdateSaved ==
    /\ merges = 0
    /\ \E tracks \in TrackLists, ids \in PublishedPlaylistIDs :
        Update(today, tracks, ids)

UpdateSpec == UpdateInit /\ [][UpdateSaved]_vars

\* The life of one cumulative playlist: created empty on the day of its first
\* run (FileUpdater._update_files_impl), then updated run after run, the
\* calendar never going back.
HistoryInit ==
    /\ ClientInit /\ credentials = "ok"
    /\ NoBudgetInit
    /\ NoRunInit
    /\ today \in Dates
    /\ new_struct = CumulativePlaylist("", "", "", <<>>, today, <<>>)
    /\ prev_struct = new_struct
    /\ playlist = Playlist(<<>>)
    /\ merges = 0
    /\ track_history = NoHistory

UpdateAgain ==
    /\ merges < MaxMerges
    /\ \E t \in today..MaxDate, tracks \in DistinctTrackLists :
        Update(t, tracks, <<>>)

HistorySpec == HistoryInit /\ [][UpdateAgain]_vars

\* The later life of a cumulative playlist whose file an earlier run saved
\* with one track still on the playlist, with or without the asterisk.
ArchivedPlaylists(t) ==
    {CumulativePlaylist("old_playlist_url", "old_playlist_name", "old_description",
                        <<saved>>, 1, <<"oldPublishedPlaylistID">>) :
        saved \in {track \in SavedTracks("t1", t) : track.date_removed = NoDate}}

ArchiveInit ==
    /\ ClientInit /\ credentials = "ok"
    /\ NoBudgetInit
    /\ NoRunInit
    /\ today \in Dates
    /\ new_struct \in ArchivedPlaylists(today)
    /\ prev_struct = new_struct
    /\ playlist = Playlist(<<>>)
    /\ merges = 0
    /\ track_history = NoHistory

ArchiveSpec == ArchiveInit /\ [][UpdateAgain]_vars

\* ------------------------------------------------------- the upstream API
PlaylistIDs == {"a", "b"}
CategoryIDs == {"c1", "c2"}
\* sorted() of playlist IDs and of category IDs
PlaylistOrder == <<"a", "b">>
CategoryOrder == <<"c1", "c2">>
SortedIDs(order, ids) == SelectSeq(order, LAMBDA id : id \in ids)

BASE_URL == "https://api.spotify.com/v1"
UserPlaylistsHref == BASE_URL \o "/users/spotify/playlists?limit=50"
FeaturedPlaylistsHref == BASE_URL \o "/browse/featured-playlists?limit=50"
CategoriesHref == BASE_URL \o "/browse/categories?limit=50"
CategoryPlaylistsHref(category) ==
    BASE_URL \o "/browse/categories/" \o category \o "/playlists?limit=50"
_get_playlist_href(playlist_id) ==
    BASE_URL \o "/playlists/" \o playlist_id \o "?fields=external_urls,name"
_get_tracks_href(playlist_id) ==
    BASE_URL \o "/playlists/" \o playlist_id \o "/tracks?fields=items,next"

\* `data.get("next")` of the page at the URL being requested: the URL of the
\* page after it while the listing has one, else "" or no link at all.
NextLinks ==
    {"", None} \cup (IF page + 1 < MaxPages THEN {url \o "&offset"} ELSE {})

\* A page of a listing as the caller reads it: malformed (a required key
\* missing or of the wrong type), or its items and its next link.
InvalidPage == [valid |-> FALSE, items |-> <<>>, next |-> None]
Pages(item_lists) ==
    {[valid |-> TRUE, items |-> items, next |-> next] :
        items \in item_lists, next \in NextLinks} \cup {InvalidPage}

\* The IDs on a page of playlists and on a page of categories.
PlaylistIDPages == Pages({{}, {"b"}})
CategoryIDPages == Pages({{}, {"c1"}, {"c1", "c2"}})

\* An item of a page of tracks: one that carries a track, one whose track is
\* null or has no URL (skipped), one that is not an object or lacks a required
\* key (InvalidDataError).
TrackItem(id) == [kind |-> "track", id |-> id]
SkippedItem == [kind |-> "skipped", id |-> None]
InvalidItem == [kind |-> "invalid", id |-> None]
TrackPages ==
    Pages({<<>>, <<TrackItem("a1"), TrackItem("a2")>>,
           <<SkippedItem, TrackItem("a3")>>, <<TrackItem("a1"), InvalidItem>>})

\* The playlist object: complete, without a name, or without a description.
PlaylistObjects == {"complete", "no name", "no description"}

\* The tracks _get_tracks makes of the items of one page.
Batch(items) ==
    LET carrying == SelectSeq(items, LAMBDA item : item.kind = "track")
    IN  [i \in DOMAIN carrying |-> carrying[i].id]

\* Does reading the page raise InvalidDataError?
InvalidData(content) == ~content.valid

\* Does reading the items of a page of tracks raise InvalidDataError?
InvalidTracks(content) ==
    \/ InvalidData(content)
    \/ \E i \in DOMAIN content.items : content.items[i].kind = "invalid"

\* `while href:`
has_next_unless_absent(next) == next # None

has_next(next) == next \notin {"", None}

\* -------------------------------------------- FileUpdater._update_files_impl
NoPlaylist == [stored |-> FALSE, tracks |-> <<>>]
PlaylistOf(fetched_tracks) == [stored |-> TRUE, tracks |-> fetched_tracks]

\* The playlist read from the file of an earlier run, "useful if Spotify
\* fetch fails".
PreviousPlaylist == PlaylistOf(<<"a0">>)

\* `retry_budget=RetryBudget(seconds=5)` of the fetch loop
playlist_retry_budget_shared ==
    IF request_retry_budget.given /\ request_retry_budget.initial = PlaylistBudgetSeconds
    THEN request_retry_budget ELSE RetryBudget(PlaylistBudgetSeconds)

playlist_retry_budget == RetryBudget(PlaylistBudgetSeconds)

\* `request_retry_budget=RetryBudget(seconds=3)` of get_category_playlist_ids
category_retry_budget == RetryBudget(CategoryBudgetSeconds)

\* The errors the fetch loop catches per playlist.
SkippedErrors_without_budget_exceeded ==
    {"InvalidDataError", "ResourceNotFoundError"}

SkippedErrors_without_invalid_data ==
    {"ResourceNotFoundError", "RequestRetryBudgetExceededError"}

SkippedErrors_with_request_failed ==
    {"InvalidDataError", "ResourceNotFoundError", "RequestRetryBudgetExceededError",
     "RequestFailedError"}

SkippedErrors ==
    {"InvalidDataError", "ResourceNotFoundError", "RequestRetryBudgetExceededError"}

\* The run awaits a GET of url u, or has come to its end.
Await(u, rb, at) == StartRequest(u, "JSON", TRUE, rb) /\ run_pc' = at
Halt(at) == run_pc' = at /\ UNCHANGED client_vars

\* The fetch loop starts: every registered playlist, in sorted order.
FetchPlaylists(reg) ==
    /\ registered' = reg
    /\ to_fetch' = SortedIDs(PlaylistOrder, reg)
    /\ playlist_ids' = {}
    /\ category_ids' = {}
    /\ categories_left' = <<>>
    /\ page' = 0
    /\ UNCHANGED <<auto_register, playlist_data, track_list, pages, playlists,
                   unfetchable, get_playlist_result, run_error>>
    /\ IF reg = {}
       THEN Halt("fetched")
       ELSE Await(_get_playlist_href(Head(SortedIDs(PlaylistOrder, reg))),
                  playlist_retry_budget, "playlist")

\* _update_files_impl up to its first request (the last commit was not a
\* registry-only push, so every registered playlist is fetched).
UpdateFilesImpl ==
    /\ run_pc = "start"
    /\ IF auto_register
       THEN /\ Await(UserPlaylistsHref, NoBudget, "user")
            /\ UNCHANGED <<auto_register, registered, playlist_ids, category_ids,
                           categories_left, to_fetch, playlist_data, track_list,
                           page, pages, playlists, unfetchable,
                           get_playlist_result, run_error>>
       ELSE FetchPlaylists(registered)
    /\ UNCHANGED <<budget_vars, merge_vars, name_vars, output_vars>>

\* get_category_playlist_ids goes on to the next category, or returns and
\* _auto_register registers what the three listings have found.
NextCategory_forgetting_found(rest, found, categories) ==
    IF rest = <<>>
    THEN FetchPlaylists(registered)
    ELSE /\ Await(CategoryPlaylistsHref(Head(rest)), category_retry_budget,
                  "category_playlists")
         /\ categories_left' = rest
         /\ playlist_ids' = {}
         /\ category_ids' = categories
         /\ page' = 0
         /\ UNCHANGED <<auto_register, registered, to_fetch, playlist_data,
                        track_list, pages, playlists, unfetchable,
                        get_playlist_result, run_error>>

NextCategory(rest, found, categories) ==
    IF rest = <<>>
    THEN FetchPlaylists(registered \cup found)
    ELSE /\ Await(CategoryPlaylistsHref(Head(rest)), category_retry_budget,
                  "category_playlists")
         /\ categories_left' = rest
         /\ playlist_ids' = found
         /\ category_ids' = categories
         /\ page' = 0
         /\ UNCHANGED <<auto_register, registered, to_fetch, playlist_data,
                        track_list, pages, playlists, unfetchable,
                        get_playlist_result, run_error>>

\* The continuation of get_spotify_user_playlist_ids, get_featured_playlist_ids
\* and get_category_playlist_ids after the response to a page request.
IDsPage(content) ==
    /\ run_pc \in {"user", "featured", "categories", "category_playlists"}
    /\ pc = "done"
    /\ LET raised == result.kind = "raise"
           found == IF run_pc = "categories" THEN playlist_ids
                    ELSE playlist_ids \cup content.items
           categories == IF run_pc = "categories"
                         THEN category_ids \cup content.items ELSE category_ids
       IN  IF raised /\ run_pc = "category_playlists"
                /\ result.error = "ResourceNotFoundError"
           THEN NextCategory(Tail(categories_left), playlist_ids, category_ids)
           ELSE IF raised \/ InvalidData(content)
           \* `except Exception` around _auto_register
           THEN FetchPlaylists(registered)
           ELSE IF has_next(content.next)
           THEN /\ Await(content.next,
                         IF run_pc \in {"categories", "category_playlists"}
                         THEN category_retry_budget ELSE NoBudget,
                         run_pc)
                /\ playlist_ids' = found
                /\ category_ids' = categories
                /\ page' = page + 1
                /\ UNCHANGED <<auto_register, registered, categories_left, to_fetch,
                               playlist_data, track_list, pages, playlists,
                               unfetchable, get_playlist_result, run_error>>
           ELSE IF run_pc \in {"user", "featured"}
           THEN /\ IF run_pc = "user"
                   THEN Await(FeaturedPlaylistsHref, NoBudget, "featured")
                   ELSE Await(CategoriesHref, category_retry_budget, "categories")
                /\ playlist_ids' = found
                /\ page' = 0
                /\ UNCHANGED <<auto_register, registered, category_ids,
                               categories_left, to_fetch, playlist_data, track_list,
                               pages, playlists, unfetchable, get_playlist_result,
                               run_error>>
           ELSE IF run_pc = "categories"
           THEN NextCategory(SortedIDs(CategoryOrder, categories), found, categories)
           ELSE NextCategory(Tail(categories_left), found, categories)
    /\ UNCHANGED <<budget_vars, merge_vars, name_vars, output_vars>>

\* `playlists[playlist_id] = await spotify.get_playlist(...)`: the assignment
\* takes place only when get_playlist returns.
StoredPlaylists_keeping_partial(outcome, playlist_id) ==
    IF outcome.kind = "return"
    THEN [playlists EXCEPT ![playlist_id] = PlaylistOf(outcome.data)]
    ELSE IF track_list # <<>>
    THEN [playlists EXCEPT ![playlist_id] = PlaylistOf(track_list)]
    ELSE playlists

StoredPlaylists(outcome, playlist_id) ==
    IF outcome.kind = "return"
    THEN [playlists EXCEPT ![playlist_id] = PlaylistOf(outcome.data)]
    ELSE playlists

\* The playlists of the index and of the metadata files: the keys of the
\* `playlists` dictionary when the outputs are written.
Indexed == {playlist_id \in PlaylistIDs : playlists[playlist_id].stored}

\* get_playlist has returned or raised: the fetch loop stores the playlist or
\* skips it, and goes on to the next one, or the error ends the run.
EndGetPlaylist(outcome, received) ==
    LET playlist_id == Head(to_fetch)
        rest == Tail(to_fetch)
        returned == outcome.kind = "return"
        caught == ~returned /\ outcome.error \in SkippedErrors
    IN  /\ get_playlist_result' = IF returned THEN "return" ELSE outcome.error
        /\ pages' = received
        /\ playlists' = StoredPlaylists(outcome, playlist_id)
        /\ unfetchable' = IF caught
                          THEN Append(unfetchable, <<playlist_id, outcome.error>>)
                          ELSE unfetchable
        /\ playlist_data' = None
        /\ track_list' = <<>>
        /\ page' = 0
        /\ UNCHANGED <<auto_register, registered, playlist_ids, category_ids,
                       categories_left>>
        /\ IF ~returned /\ ~caught
           THEN Halt("failed") /\ run_error' = outcome.error /\ UNCHANGED to_fetch
           ELSE IF rest = <<>>
           THEN Halt("fetched") /\ to_fetch' = rest /\ UNCHANGED run_error
           ELSE /\ Await(_get_playlist_href(Head(rest)), playlist_retry_budget,
                         "playlist")
                /\ to_fetch' = rest
                /\ UNCHANGED run_error

\* get_playlist after the response to the request of the playlist object:
\* the fields read before the tracks are fetched, then the first page request
\* of _get_tracks, under the same retry budget.
PlaylistData(content) ==
    /\ run_pc = "playlist"
    /\ pc = "done"
    /\ IF result.kind = "raise"
       THEN EndGetPlaylist(result, pages)
       ELSE IF content = "no name"
       THEN EndGetPlaylist(Raise("InvalidDataError", <<"Missing key: name">>), pages)
       ELSE /\ Await(_get_tracks_href(Head(to_fetch)), request_retry_budget, "tracks")
            /\ playlist_data' = content
            /\ track_list' = <<>>
            /\ pages' = <<>>
            /\ page' = 0
            /\ UNCHANGED <<auto_register, registered, playlist_ids, category_ids,
                           categories_left, to_fetch, playlists, unfetchable,
                           get_playlist_result, run_error>>
    /\ UNCHANGED <<budget_vars, merge_vars, name_vars, output_vars>>

TracksPage_repeating_retried_page(content) ==
    /\ run_pc = "tracks"
    /\ pc = "done"
    /\ LET received == Append(pages, [url |-> url, batch |-> Batch(content.items),
                                      next |-> content.next])
       IN  IF result.kind = "raise"
           THEN EndGetPlaylist(result, pages)
           ELSE IF InvalidTracks(content)
           THEN EndGetPlaylist(Raise("InvalidDataError", <<"Invalid item">>), pages)
           ELSE IF has_next(content.next)
           THEN /\ Await(content.next, request_retry_budget, "tracks")
                /\ track_list' = IF sleeps > 0
                                 THEN track_list \o Batch(content.items)
                                                 \o Batch(content.items)
                                 ELSE track_list \o Batch(content.items)
                /\ pages' = received
                /\ page' = page + 1
                /\ UNCHANGED <<auto_register, registered, playlist_ids, category_ids,
                               categories_left, to_fetch, playlist_data, playlists,
                               unfetchable, get_playlist_result, run_error>>
           ELSE IF playlist_data = "no description"
           THEN EndGetPlaylist(
                    Raise("InvalidDataError", <<"Missing key: description">>), received)
           ELSE EndGetPlaylist(Return(track_list \o Batch(content.items)), received)
    /\ UNCHANGED <<budget_vars, merge_vars, name_vars, output_vars>>

\* get_playlist and _get_tracks after the response to a page request: the
\* batch is appended and the next page requested, or the listing is over and
\* the playlist is built from the playlist object and the tracks.
TracksPage(content) ==
    /\ run_pc = "tracks"
    /\ pc = "done"
    /\ LET received == Append(pages, [url |-> url, batch |-> Batch(content.items),
                                      next |-> content.next])
       IN  IF result.kind = "raise"
           THEN EndGetPlaylist(result, pages)
           ELSE IF InvalidTracks(content)
           THEN EndGetPlaylist(Raise("InvalidDataError", <<"Invalid item">>), pages)
           ELSE IF has_next(content.next)
           THEN /\ Await(content.next, request_retry_budget, "tracks")
                /\ track_list' = track_list \o Batch(content.items)
                /\ pages' = received
                /\ page' = page + 1
                /\ UNCHANGED <<auto_register, registered, playlist_ids, category_ids,
                               categories_left, to_fetch, playlist_data, playlists,
                               unfetchable, get_playlist_result, run_error>>
           ELSE IF playlist_data = "no description"
           THEN EndGetPlaylist(
                    Raise("InvalidDataError", <<"Missing key: description">>), received)
           ELSE EndGetPlaylist(Return(track_list \o Batch(content.items)), received)
    /\ UNCHANGED <<budget_vars, merge_vars, name_vars, output_vars>>

\* The responses a run is explored under: a success, a 403 and a 404 with a
\* body, a 401, a 500 (one second of sleep), and a 429 whose Retry-After
\* exceeds every per-request budget.
RunOutcomes ==
    {r \in Outcomes({OverallSeconds - 3}) :
        \/ r.status \in {200, 403, 404} /\ r.body = "data"
        \/ r.status \in {401, 429, 500}}

RunInit ==
    /\ ClientInit
    /\ NoBudgetInit
    /\ NoMergeInit
    /\ NoNameInit
    /\ NoOutputInit
    /\ run_pc = "start"
    /\ auto_register \in BOOLEAN
    /\ registered \in {{"a"}, {"a", "b"}}
    /\ playlist_ids = {}
    /\ category_ids = {}
    /\ categories_left = <<>>
    /\ to_fetch = <<>>
    /\ playlist_data = None
    /\ track_list = <<>>
    /\ page = 0
    /\ pages = <<>>
    /\ playlists \in {[playlist_id \in PlaylistIDs |-> NoPlaylist],
                     [playlist_id \in PlaylistIDs |->
                        IF playlist_id = "a" THEN PreviousPlaylist ELSE NoPlaylist]}
    /\ unfetchable = <<>>
    /\ get_playlist_result = None
    /\ run_error = None

RunAttempt == \E r \in RunOutcomes : Explored(r) /\ Dispatch(r)

ListingResponse ==
    \E content \in (IF run_pc = "categories" THEN CategoryIDPages
                    ELSE PlaylistIDPages) : IDsPage(content)

PlaylistResponse == \E content \in PlaylistObjects : PlaylistData(content)

TracksResponse == \E content \in TrackPages : TracksPage(content)

RunNext ==
    \/ UpdateFilesImpl
    \/ Token
    \/ RunAttempt
    \/ Sleep
    \/ ListingResponse
    \/ PlaylistResponse
    \/ TracksResponse

RunSpec == RunInit /\ [][RunNext]_vars

\* The fetch loop alone, without auto-registration: every request carries the
\* 5-second budget of its playlist, so the budgets alone limit the failures.
\* The 429 explored leaves the overall budget exactly those 5 seconds.
FetchOutcomes ==
    {r \in Outcomes({OverallSeconds - PlaylistBudgetSeconds - 1}) :
        \/ r.status \in {200, 404} /\ r.body = "data"
        \/ r.status \in {429, 500}}

FetchInit == RunInit /\ auto_register = FALSE

FetchAttempt ==
    \E r \in FetchOutcomes : request_retry_budget.given /\ Dispatch(r)

FetchNext ==
    \/ UpdateFilesImpl
    \/ Token
    \/ FetchAttempt
    \/ Sleep
    \/ PlaylistResponse
    \/ TracksResponse

FetchSpec == FetchInit /\ [][FetchNext]_vars

\* A run as in RunSpec, except that without auto-registration, when every
\* request carries a per-request budget, the budgets alone limit the
\* failures.
SleepNext ==
    \/ RunNext
    \/ ~auto_register /\ FetchAttempt

SleepSpec == RunInit /\ [][SleepNext]_vars

\* ------------------------------------------------------ the output stage
\* _maybe_update_file: the file holds `content` afterwards, whether it was
\* written or already held it.
_maybe_update_file(on_disk, path, content) == [on_disk EXCEPT ![path] = content]

\* One iteration of `for playlist_id, playlist in sorted(playlists_to_update
\* .items())`: the plain file, the pretty JSON and markdown, the cumulative
\* JSON and markdown unless they are skipped, and the followers JSON, the
\* cumulative playlist and the followers being made from the content their
\* files held.
UpdatedPlaylistFiles(on_disk, playlist_id, playlist_, skip) ==
    LET new_struct_ == <<on_disk[<<"cumulative_json", playlist_id>>], playlist_>>
        prev_followers == on_disk[<<"followers_json", playlist_id>>]
        content(kind) ==
            CASE kind = "plain" -> Formatted("plain", <<playlist_id, playlist_>>)
              [] kind = "pretty_json" -> Formatted("to_json", <<playlist_>>)
              [] kind = "pretty_markdown" ->
                    Formatted("pretty", <<playlist_id, playlist_>>)
              [] kind = "cumulative_json" -> Formatted("to_json", <<new_struct_>>)
              [] kind = "cumulative_markdown" ->
                    Formatted("cumulative", <<playlist_id, new_struct_>>)
              [] kind = "followers_json" ->
                    Formatted("followers_json", <<prev_followers, playlist_>>)
    IN  [path \in Paths |->
            IF path[2] # playlist_id
                \/ (skip /\ path[1] \in {"cumulative_json", "cumulative_markdown"})
            THEN on_disk[path]
            ELSE _maybe_update_file(on_disk, path, content(path[1]))[path]]

\* "Update all metadata files": the index and the four metadata files, made
\* from the `playlists` dictionary.
UpdatedMetadataFiles(on_disk, all) ==
    [path \in Paths |->
        CASE path[1] = "index" -> Formatted("index", <<all>>)
          [] path[1] \in {"metadata_full_json", "metadata_full_json_br"} ->
                Formatted(path[1], <<Formatted("metadata_full_json", <<all>>)>>)
          [] path[1] \in {"metadata_compact_json", "metadata_compact_json_br"} ->
                Formatted(path[1], <<Formatted("metadata_compact_json", <<all>>)>>)
          [] OTHER -> on_disk[path]]

\* `playlists_to_update` still to process: every playlist of the dictionary
\* when the fetch loop has just ended (the duplicate-name step between the
\* two, GroupDuplicateNames and AssignUniqueName, changes names in memory
\* only), then those the loop has not reached.
LeftToUpdate ==
    IF run_pc = "fetched" THEN SortedIDs(PlaylistOrder, Indexed) ELSE to_update

ProcessPlaylist_despite_failure ==
    /\ run_pc \in {"fetched", "updating", "failed"}
    /\ LET left == IF run_pc = "failed" THEN SortedIDs(PlaylistOrder, Indexed)
                   ELSE LeftToUpdate
       IN  /\ left # <<>>
           /\ files' = UpdatedPlaylistFiles(files, Head(left), playlists[Head(left)],
                                            skip_cumulative_playlists)
           /\ to_update' = Tail(left)
    /\ run_pc' = IF run_pc = "failed" THEN "failed" ELSE "updating"
    /\ UNCHANGED <<client_vars, budget_vars, merge_vars, name_vars,
                   skip_cumulative_playlists, auto_register, registered,
                   playlist_ids, category_ids, categories_left, to_fetch,
                   playlist_data, track_list, page, pages, playlists, unfetchable,
                   get_playlist_result, run_error>>

\* "Process the playlists": the files of the next playlist are updated.
ProcessPlaylist ==
    /\ run_pc \in {"fetched", "updating"}
    /\ LeftToUpdate # <<>>
    /\ files' = UpdatedPlaylistFiles(files, Head(LeftToUpdate),
                                     playlists[Head(LeftToUpdate)],
                                     skip_cumulative_playlists)
    /\ to_update' = Tail(LeftToUpdate)
    /\ run_pc' = "updating"
    /\ UNCHANGED <<client_vars, budget_vars, merge_vars, name_vars,
                   skip_cumulative_playlists, auto_register, registered,
                   playlist_ids, category_ids, categories_left, to_fetch,
                   playlist_data, track_list, page, pages, playlists, unfetchable,
                   get_playlist_result, run_error>>

\* The loop is over: the index and the metadata files are updated and
\* _update_files_impl returns.
UpdateMetadata ==
    /\ run_pc \in {"fetched", "updating"}
    /\ LeftToUpdate = <<>>
    /\ files' = UpdatedMetadataFiles(files, playlists)
    /\ to_update' = <<>>
    /\ run_pc' = "updated"
    /\ UNCHANGED <<client_vars, budget_vars, merge_vars, name_vars,
                   skip_cumulative_playlists, auto_register, registered,
                   playlist_ids, category_ids, categories_left, to_fetch,
                   playlist_data, track_list, page, pages, playlists, unfetchable,
                   get_playlist_result, run_error>>

\* A whole run of _update_files_impl without auto-registration, the output
\* stage included, with either value of skip_cumulative_playlists.
WriteInit ==
    /\ ClientInit
    /\ NoBudgetInit
    /\ NoMergeInit
    /\ NoNameInit
    /\ skip_cumulative_playlists \in BOOLEAN
    /\ to_update = <<>>
    /\ files = PreviousFiles
    /\ run_pc = "start"
    /\ auto_register = FALSE
    /\ registered \in {{"a"}, {"a", "b"}}
    /\ playlist_ids = {}
    /\ category_ids = {}
    /\ categories_left = <<>>
    /\ to_fetch = <<>>
    /\ playlist_data = None
    /\ track_list = <<>>
    /\ page = 0
    /\ pages = <<>>
    /\ playlists \in {[playlist_id \in PlaylistIDs |-> NoPlaylist],
                     [playlist_id \in PlaylistIDs |->
                        IF playlist_id = "a" THEN PreviousPlaylist ELSE NoPlaylist]}
    /\ unfetchable = <<>>
    /\ get_playlist_result = None
    /\ run_error = None

WriteNext ==
    \/ UpdateFilesImpl
    \/ Token
    \/ RunAttempt
    \/ Sleep
    \/ PlaylistResponse
    \/ TracksResponse
    \/ ProcessPlaylist
    \/ UpdateMetadata

WriteSpec == WriteInit /\ [][WriteNext]_vars

\* -------------------------------------------- the duplicate-name step
NamedIDs == {"a", "b", "c"}
\* Python's order of the playlist IDs and of the original names.
NamedOrder == <<"a", "b", "c">>
OriginalNames == {"name", "name (2)"}
OriginalNameOrder == <<"name", "name (2)">>
Rank(order, x) == CHOOSE i \in DOMAIN order : order[i] = x

\* Playlist.num_followers: None or a count.
NoFollowers == [given |-> FALSE, total |-> 0]
Followers(total) == [given |-> TRUE, total |-> total]

\* `f"{original_name} ({suffix})"`
Suffixed(original_name, suffix) ==
    original_name \o " (" \o ToString(suffix) \o ")"

\* The suffixes the unique_name in a file of an earlier run may carry.
SavedSuffixes == {2, 3}

\* A playlist of the batch as the step reads it: just fetched, its
\* unique_name its original_name, or read from the file of an earlier run
\* with the unique_name that run gave it.
NamedPlaylists ==
    UNION {{[original_name |-> original_name, unique_name |-> unique_name,
             num_followers |-> num_followers] :
                unique_name \in {original_name}
                    \cup {Suffixed(original_name, suffix) : suffix \in SavedSuffixes},
                num_followers \in {NoFollowers}
                    \cup {Followers(n) : n \in 0..MaxFollowers}} :
            original_name \in OriginalNames}

\* `playlists` after the fetch loop: the registered playlists that were
\* fetched or have a file.
Batches ==
    UNION {[ids -> NamedPlaylists] : ids \in SUBSET NamedIDs}

\* `original_playlist_names_to_ids[playlist.original_name]`
IDsNamed(batch, original_name) ==
    {playlist_id \in DOMAIN batch : batch[playlist_id].original_name = original_name}

\* `-1 * (playlists[playlist_id].num_followers or 0), playlist_id`
followers_or_0(num_followers) ==
    IF num_followers.given THEN num_followers.total ELSE 0

by_num_followers(batch, x, y) ==
    LET fx == followers_or_0(batch[x].num_followers)
        fy == followers_or_0(batch[y].num_followers)
    IN  \/ -1 * fx < -1 * fy
        \/ fx = fy /\ Rank(NamedOrder, x) < Rank(NamedOrder, y)

\* sorted(playlist_ids, key=...)
RECURSIVE sorted_by_num_followers(_, _)
sorted_by_num_followers(batch, ids) ==
    IF ids = {} THEN <<>>
    ELSE LET first == CHOOSE x \in ids : \A y \in ids \ {x} : by_num_followers(batch, x, y)
         IN  <<first>> \o sorted_by_num_followers(batch, ids \ {first})

\* The iterations of `for original_name, playlist_ids in sorted(...)` and of
\* `for i, playlist_id in enumerate(sorted_by_num_followers)` in the order
\* they run.
RECURSIVE Iterations(_, _)
Iterations(batch, names) ==
    IF names = <<>> THEN <<>>
    ELSE LET original_name == Head(names)
             members == sorted_by_num_followers(batch, IDsNamed(batch, original_name))
             group == IF Len(members) > 1
                      THEN [i \in DOMAIN members |->
                                [original_name |-> original_name,
                                 playlist_id |-> members[i], i |-> i - 1]]
                      ELSE <<>>
         IN  group \o Iterations(batch, Tail(names))

\* `any(other_playlist_id != playlist_id and other_playlist.unique_name ==
\* unique_name for ... in playlists.items())`
taken_within_group(batch, playlist_id, unique_name) ==
    \E other \in DOMAIN batch :
        /\ other # playlist_id
        /\ batch[other].original_name = batch[playlist_id].original_name
        /\ batch[other].unique_name = unique_name

taken(batch, playlist_id, unique_name) ==
    \E other \in DOMAIN batch :
        other # playlist_id /\ batch[other].unique_name = unique_name

\* The while loop: the first suffix from `suffix` on whose name is free.
RECURSIVE first_free_suffix(_, _, _, _)
first_free_suffix(batch, playlist_id, original_name, suffix) ==
    IF taken(batch, playlist_id, Suffixed(original_name, suffix))
    THEN first_free_suffix(batch, playlist_id, original_name, suffix + 1)
    ELSE suffix

\* The duplicate names are collected and the loops laid out.
GroupDuplicateNames ==
    /\ run_pc = "fetched"
    /\ duplicates' = Iterations(playlists, OriginalNameOrder)
    /\ run_pc' = IF Iterations(playlists, OriginalNameOrder) = <<>>
                 THEN "named" ELSE "duplicate_names"
    /\ UNCHANGED <<client_vars, budget_vars, merge_vars, output_vars, renamed, auto_register,
                   registered, playlist_ids, category_ids, categories_left, to_fetch,
                   playlist_data, track_list, page, pages, playlists, unfetchable,
                   get_playlist_result, run_error>>

\* One iteration of the inner loop: the first member of a group is passed
\* over, every other one becomes a new Playlist with the first free name.
AssignUniqueName ==
    /\ run_pc = "duplicate_names"
    /\ LET iteration == Head(duplicates)
           playlist_id == iteration.playlist_id
           original_name == iteration.original_name
           suffix == first_free_suffix(playlists, playlist_id, original_name, 2)
       IN  IF iteration.i = 0
           THEN UNCHANGED <<playlists, renamed>>
           ELSE /\ playlists' =
                    [playlists EXCEPT ![playlist_id] =
                        [original_name |-> original_name,
                         unique_name |-> Suffixed(original_name, suffix),
                         num_followers |-> playlists[playlist_id].num_followers]]
                /\ renamed' = renamed \cup {playlist_id}
    /\ duplicates' = Tail(duplicates)
    /\ run_pc' = IF Tail(duplicates) = <<>> THEN "named" ELSE "duplicate_names"
    /\ UNCHANGED <<client_vars, budget_vars, merge_vars, output_vars, auto_register, registered,
                   playlist_ids, category_ids, categories_left, to_fetch,
                   playlist_data, track_list, page, pages, unfetchable,
                   get_playlist_result, run_error>>

\* The batch the fetch loop has left, whatever it is.
NameInit ==
    /\ ClientInit /\ credentials = "ok"
    /\ NoBudgetInit
    /\ NoMergeInit
    /\ NoNameInit
    /\ NoOutputInit
    /\ run_pc = "fetched"
    /\ auto_register = FALSE
    /\ playlists \in Batches
    /\ registered = DOMAIN playlists
    /\ playlist_ids = {}
    /\ category_ids = {}
    /\ categories_left = <<>>
    /\ to_fetch = <<>>
    /\ playlist_data = None
    /\ track_list = <<>>
    /\ page = 0
    /\ pages = <<>>
    /\ unfetchable = <<>>
    /\ get_playlist_result = None
    /\ run_error = None

NameNext == GroupDuplicateNames \/ AssignUniqueName

NameSpec == NameInit /\ [][NameNext]_vars

\* ----------------------------------------------------------------- claims
\* One call on a fresh client as in RetrySpec, run to completion: the loop
\* does not stop between two of its steps.
RetryLiveSpec == RetrySpec /\ WF_vars(RetryNext)

BudgetErrors ==
    {"OverallRetryBudgetExceededError", "RequestRetryBudgetExceededError"}

\* The step is a dispatch of the request of the current call.
DispatchStep == pc = "loop" /\ dispatches' = dispatches + 1

\* The seconds the specification assigns to an outcome that is retried.
SleepDuration(r) == IF r.status = 429 THEN r.retry_after + 1 ELSE 1

\* C1: when no Retry-After value is negative, a call on the client performs
\* at most 300 dispatches and always comes to an end: it returns a body or
\* raises a fatal or a budget-exceeded error.
C1_CallEndsWithin300Dispatches ==
    /\ [](dispatches <= OverallSeconds)
    /\ [](pc = "done" => result.kind \in {"return", "raise"})
    /\ (pc = "loop") ~> (pc = "done")

\* C1 witness: the overall budget is spent by the 300th dispatch of one call.
C1_Witness ==
    /\ pc = "done"
    /\ dispatches = OverallSeconds
    /\ result.error = "OverallRetryBudgetExceededError"

\* C2: a retryable outcome debits its sleep duration from the overall budget
\* and then, when a per-request budget was supplied and the first debit did not
\* raise, from that budget; the client sleeps for that duration only if neither
\* debit raised, and after a budget-exceeded error the call neither sleeps nor
\* dispatches again.
C2_DebitBothThenSleep ==
    [][ /\ (DispatchStep /\ Retryable(response')) =>
            /\ overall_remaining' = overall_remaining - SleepDuration(response')
            /\ (overall_remaining' > 0 /\ request_retry_budget.given) =>
                    request_retry_budget'.remaining =
                        request_retry_budget.remaining - SleepDuration(response')
            /\ overall_remaining' <= 0 =>
                    /\ result'.error = "OverallRetryBudgetExceededError"
                    /\ request_retry_budget' = request_retry_budget
            /\ (overall_remaining' > 0 /\ request_retry_budget'.given
                    /\ request_retry_budget'.remaining <= 0) =>
                    result'.error = "RequestRetryBudgetExceededError"
            /\ (pc' = "sleep") <=> (result'.error \notin BudgetErrors)
            /\ pc' = "sleep" => sleep_seconds' = SleepDuration(response')
        /\ pc = "sleep" =>
            /\ sleeps' = sleeps + 1
            /\ slept_seconds' = slept_seconds + SleepDuration(response)
            /\ pc' = "loop"
        /\ result.error \in BudgetErrors =>
            /\ pc = "done"
            /\ dispatches' = 0 /\ sleeps' = 0 /\ result' = NoResult
      ]_vars

\* C2 witness: a call with a per-request budget has slept after a debit of
\* both budgets, and a later outcome has exhausted the per-request budget.
C2_Witness ==
    /\ pc = "done"
    /\ result.error = "RequestRetryBudgetExceededError"
    /\ sleeps >= 1
    /\ request_retry_budget.remaining <= 0
    /\ overall_remaining > 0

C4_OverallBudgetNeverIncreases ==
    [][overall_remaining' <= overall_remaining]_vars

\* C5: on a 429 with Retry-After = n the overall budget is debited by n + 1
\* and the token is kept; when the request is dispatched again, the
\* per-request budget (if any) was debited by n + 1 too and exactly one sleep,
\* of n + 1 seconds, separates the two dispatches.
C5_RateLimitedSleepsRetryAfterPlusOne ==
    [][ /\ (DispatchStep /\ response'.status = 429) =>
            /\ overall_remaining' = overall_remaining - (response'.retry_after + 1)
            /\ access_token' = access_token
            /\ token_calls' = token_calls
            /\ pc' = "sleep" =>
                /\ sleep_seconds' = response'.retry_after + 1
                /\ request_retry_budget.given =>
                    request_retry_budget'.remaining =
                        request_retry_budget.remaining - (response'.retry_after + 1)
        /\ (pc = "sleep" /\ response.status = 429) =>
            /\ sleeps' = sleeps + 1
            /\ slept_seconds' = slept_seconds + response.retry_after + 1
            /\ dispatches' = dispatches
        /\ (DispatchStep /\ response.status = 429) =>
            /\ sleeps = dispatches
            /\ sent'.token = sent.token
      ]_vars

\* C5 witness: Retry-After 2 under a per-request budget of 5; one sleep of 3
\* seconds was made, both budgets are down by 3, and the request is about to
\* be dispatched again.
C5_Witness ==
    /\ pc = "loop"
    /\ response.status = 429 /\ response.retry_after = 2
    /\ dispatches = 1 /\ sleeps = 1 /\ slept_seconds = 3
    /\ request_retry_budget = [RetryBudget(PlaylistBudgetSeconds) EXCEPT !.remaining = 2]
    /\ overall_remaining = OverallSeconds - 3

\* C6: a 401 empties the token cache and is charged 1 second; the next
\* dispatch of the request goes to the same URL and carries a token issued
\* after the rejected one, by a provider call made after the 401.
C6_RejectedTokenRefetched ==
    [][ /\ (DispatchStep /\ response'.status = 401) =>
            /\ access_token' = 0
            /\ overall_remaining' = overall_remaining - 1
            /\ sent'.token = token_calls
            /\ pc' = "sleep" => sleep_seconds' = 1
        /\ (pc = "sleep" /\ response.status = 401) =>
            /\ slept_seconds' = slept_seconds + 1
            /\ access_token' = 0
        /\ (DispatchStep /\ response.status = 401) =>
            /\ sent'.token > sent.token
            /\ sent'.token = token_calls
            /\ sent'.url = sent.url
            /\ sleeps = dispatches
      ]_vars

\* C6 witness: the only failure the client has seen is a 401; the request was
\* then sent a second time, with the second token, and succeeded.
C6_Witness ==
    /\ pc = "done" /\ result.kind = "return"
    /\ failures = 1 /\ token_calls = 2
    /\ dispatches = 2 /\ sent.token = 2
    /\ sleeps = 1 /\ slept_seconds = 1

\* The body of a response is read as a non-empty JSON value, or is not read.
BodyParsed(r) ==
    expected_response_type = "JSON" => r.body \in {"data", "error_foo"}

\* C7 as stated: every attempt that receives a 404 ends the request with
\* ResourceNotFoundError, without a debit, a sleep or another dispatch.
C7_Original ==
    [][ (DispatchStep /\ response'.status = 404) =>
            /\ pc' = "done"
            /\ result'.error = "ResourceNotFoundError"
            /\ overall_remaining' = overall_remaining
            /\ request_retry_budget' = request_retry_budget
      ]_vars

\* C7 as amended: an attempt that receives a 404 whose body is read as a
\* non-empty JSON value, or whose body is not read, ends the request with
\* ResourceNotFoundError "<error message> (404)", without a debit, a sleep
\* or another dispatch; a 404 whose expected JSON body is empty or
\* unparseable is retried like any other empty response.
C7_NotFoundWithBodyIsFatal ==
    [][ /\ (DispatchStep /\ response'.status = 404 /\ BodyParsed(response')) =>
            /\ pc' = "done"
            /\ result'.error = "ResourceNotFoundError"
            /\ result'.info = <<ErrorMessage(Data(response', expected_response_type)), 404>>
            /\ overall_remaining' = overall_remaining
            /\ request_retry_budget' = request_retry_budget
            /\ sleep_seconds' = 0
        /\ (DispatchStep /\ response'.status = 404 /\ ~BodyParsed(response')) =>
            /\ overall_remaining' = overall_remaining - 1
            /\ pc' = "sleep" \/ result'.error \in BudgetErrors
        /\ result.error = "ResourceNotFoundError" =>
            /\ pc = "done"
            /\ dispatches' = 0 /\ sleeps' = 0 /\ result' = NoResult
      ]_vars

\* C7 witness: the first attempt of a call got a 404 with an error body and
\* the call ended at once, both budgets untouched.
C7_Witness ==
    /\ pc = "done"
    /\ response.status = 404 /\ response.body = "error_foo"
    /\ result.error = "ResourceNotFoundError"
    /\ dispatches = 1 /\ sleeps = 0
    /\ request_retry_budget = RetryBudget(PlaylistBudgetSeconds)
    /\ overall_remaining = OverallSeconds

\* C8: a 4xx response other than 401, 404 and 429 whose body is parsed raises
\* RequestFailedError "<error message> (<status>)" when raise_if_request_fails
\* is true and returns the parsed body when it is false.
C8_OtherClientErrorsFail ==
    [][ (DispatchStep /\ response'.status \in {400, 403} /\ BodyParsed(response')) =>
            /\ pc' = "done"
            /\ raise_if_request_fails =>
                /\ result'.error = "RequestFailedError"
                /\ result'.info = <<ErrorMessage(Data(response', expected_response_type)),
                                    response'.status>>
            /\ ~raise_if_request_fails =>
                /\ result'.kind = "return"
                /\ expected_response_type = "JSON" => result'.data = response'.body
      ]_vars

\* The errors the contract of the request client lists.
ContractErrors ==
    {"InvalidDataError", "RequestFailedError", "ResourceNotFoundError",
     "OverallRetryBudgetExceededError", "RequestRetryBudgetExceededError"}

Transient(r) ==
    \/ r.kind \in TransportErrors
    \/ r.status >= 500
    \/ /\ r.status \in BodyStatuses
       /\ expected_response_type = "JSON"
       /\ r.body \in {"empty", "ContentTypeError"}

\* C10: a 5xx status, an empty or unparseable expected body, a connection
\* error and a timeout are each charged 1 second and keep the token; unless a
\* budget is exceeded the client sleeps 1 second and dispatches again, and one
\* such failure followed by a success returns that success's body after
\* exactly two dispatches and exactly one sleep of 1 second.
C10_TransientFailureRetriedAfterOneSecond ==
    [][ /\ (DispatchStep /\ Transient(response')) =>
            /\ access_token' = access_token
            /\ token_calls' = token_calls
            /\ overall_remaining' = overall_remaining - 1
            /\ \/ pc' = "sleep" /\ sleep_seconds' = 1
               \/ pc' = "done" /\ result'.error \in BudgetErrors
        /\ (DispatchStep /\ dispatches = 1 /\ Transient(response)
                /\ result'.kind = "return") =>
            /\ dispatches' = 2
            /\ sleeps' = 1
            /\ slept_seconds' = 1
            /\ sent' = sent
            /\ result'.data =
                IF expected_response_type = "JSON" THEN response'.body ELSE "{}"
      ]_vars

\* C10 witness: the only failure the client has seen was charged 1 second and
\* did not cost a token; the second dispatch succeeded.
C10_Witness ==
    /\ pc = "done" /\ result.kind = "return"
    /\ failures = 1 /\ token_calls = 1
    /\ dispatches = 2 /\ sleeps = 1 /\ slept_seconds = 1
    /\ overall_remaining = OverallSeconds - 1

\* ------------------------------------------------- claims about the merge
\* The track IDs of a track list, and the track a list holds for an ID (the
\* last one, when a fetched playlist lists the ID more than once).
IDsOf(tracks) == {get_id(tracks[i]) : i \in DOMAIN tracks}

Listed(tracks, id) ==
    LET at == {i \in DOMAIN tracks : get_id(tracks[i]) = id}
    IN  tracks[CHOOSE i \in at : \A j \in at : j <= i]

\* The merged tracks the latest update produced for an ID.
Merged(id) == {i \in DOMAIN new_struct.tracks : get_id(new_struct.tracks[i]) = id}

\* The day the fetched track says it was added, today when it does not say.
Candidate(track) == IF track.added_at.given THEN track.added_at.date ELSE today

SameDisplayFields(a, b) ==
    /\ a.url = b.url /\ a.name = b.name /\ a.album = b.album
    /\ a.artists = b.artists /\ a.duration_ms = b.duration_ms

Earlier(a, b) == IF a <= b THEN a ELSE b

\* C14: a track ID present in both previous and current is merged into one
\* track with the url, name, album, artists and duration of current, with no
\* date_removed, with date_added the earlier of the previous date_added and
\* the candidate (the date of added_at, today without one), and with the
\* previous asterisk when previous date_added <= candidate, no asterisk
\* otherwise.
C14_PresentInBoth ==
    merges > 0 =>
        \A id \in IDsOf(prev_struct.tracks) \cap IDsOf(playlist.tracks) :
            /\ Cardinality(Merged(id)) = 1
            /\ \A i \in Merged(id) :
                LET merged == new_struct.tracks[i]
                    previous == Listed(prev_struct.tracks, id)
                    current == Listed(playlist.tracks, id)
                IN  /\ SameDisplayFields(merged, current)
                    /\ merged.date_removed = NoDate
                    /\ merged.date_added =
                            Earlier(previous.date_added, Candidate(current))
                    /\ merged.date_added_asterisk =
                            IF previous.date_added <= Candidate(current)
                            THEN previous.date_added_asterisk ELSE FALSE

\* C14 witness: an asterisked track that was removed comes back with an
\* added_at on the very day of its date_added, and keeps date and asterisk.
C14_Witness ==
    /\ merges = 1
    /\ "t1" \in IDsOf(prev_struct.tracks) \cap IDsOf(playlist.tracks)
    /\ LET previous == Listed(prev_struct.tracks, "t1")
           current == Listed(playlist.tracks, "t1")
           merged == Listed(new_struct.tracks, "t1")
       IN  /\ previous.date_added_asterisk
           /\ previous.date_removed # NoDate
           /\ current.added_at.given
           /\ current.added_at.date = previous.date_added
           /\ today > previous.date_removed
           /\ merged.date_added_asterisk
           /\ merged.date_added = previous.date_added
           /\ merged.name # previous.name

\* C15: a track ID present only in previous is merged into one track equal
\* to the previous one in every field but date_removed, which is the previous
\* date_removed when that was set and today otherwise.
C15_PresentOnlyInPrevious ==
    merges > 0 =>
        \A id \in IDsOf(prev_struct.tracks) \ IDsOf(playlist.tracks) :
            /\ Cardinality(Merged(id)) = 1
            /\ \A i \in Merged(id) :
                LET previous == Listed(prev_struct.tracks, id) IN
                new_struct.tracks[i] =
                    [previous EXCEPT !.date_removed =
                        IF previous.date_removed # NoDate
                        THEN previous.date_removed ELSE today]

\* C15 witness: a track removed on an earlier day is still absent, and its
\* removal date has not moved to today.
C15_Witness ==
    /\ merges = 1
    /\ "t2" \in IDsOf(prev_struct.tracks) \ IDsOf(playlist.tracks)
    /\ Listed(prev_struct.tracks, "t2").date_removed # NoDate
    /\ Listed(prev_struct.tracks, "t2").date_removed < today
    /\ Listed(new_struct.tracks, "t2").date_removed
            = Listed(prev_struct.tracks, "t2").date_removed
    /\ Listed(new_struct.tracks, "t2").date_added_asterisk

\* C16: a track ID present only in current is merged into one track with
\* every field of current, no date_removed, no asterisk, and date_added the
\* date of added_at when there is one and today otherwise.
C16_PresentOnlyInCurrent ==
    merges > 0 =>
        \A id \in IDsOf(playlist.tracks) \ IDsOf(prev_struct.tracks) :
            /\ Cardinality(Merged(id)) = 1
            /\ \A i \in Merged(id) :
                LET merged == new_struct.tracks[i]
                    current == Listed(playlist.tracks, id)
                IN  /\ SameDisplayFields(merged, current)
                    /\ merged.date_removed = NoDate
                    /\ merged.date_added_asterisk = FALSE
                    /\ merged.date_added =
                            IF current.added_at.given
                            THEN current.added_at.date ELSE today

\* C16 witness: a new track whose added_at is a moment of an earlier day.
C16_Witness ==
    /\ merges = 1
    /\ "t1" \in IDsOf(playlist.tracks) \ IDsOf(prev_struct.tracks)
    /\ Listed(playlist.tracks, "t1").added_at.given
    /\ Listed(playlist.tracks, "t1").added_at.time # 0
    /\ Listed(playlist.tracks, "t1").added_at.date < today
    /\ Listed(new_struct.tracks, "t1").date_added
            = Listed(playlist.tracks, "t1").added_at.date

\* C17: updating the result of an update again, with the same today, the
\* same playlist and the same reference list, gives that result back, also
\* when the playlist lists a track ID more than once.
C17_UpdateIsIdempotent ==
    merges > 0 =>
        update(new_struct, today, playlist, new_struct.published_playlist_ids)
            = new_struct

\* C17 witness: the playlist lists one track ID twice, with two different
\* added_at, over a previous that holds the track and a removed one.
C17_Witness ==
    /\ merges = 1
    /\ Len(playlist.tracks) = 2
    /\ get_id(playlist.tracks[1]) = get_id(playlist.tracks[2])
    /\ playlist.tracks[1] # playlist.tracks[2]
    /\ Len(prev_struct.tracks) = 2
    /\ Len(new_struct.tracks) = 2
    /\ new_struct.published_playlist_ids # <<>>

\* C18: after an update a track of the result has no date_removed exactly
\* when its ID is in the playlist just merged, and has one exactly when its
\* ID is not.
C18_RemovedIffAbsent ==
    merges > 0 =>
        \A i \in DOMAIN new_struct.tracks :
            (new_struct.tracks[i].date_removed = NoDate)
                <=> (get_id(new_struct.tracks[i]) \in IDsOf(playlist.tracks))

\* C18 witness: one track that had been removed is back in the playlist and
\* has lost its date_removed, another one has just left it.
C18_Witness ==
    /\ merges = 1
    /\ IDsOf(playlist.tracks) = {"t1"}
    /\ IDsOf(prev_struct.tracks) = {"t1", "t2"}
    /\ Listed(prev_struct.tracks, "t1").date_removed # NoDate
    /\ Listed(prev_struct.tracks, "t2").date_removed = NoDate
    /\ Listed(new_struct.tracks, "t1").date_removed = NoDate
    /\ Listed(new_struct.tracks, "t2").date_removed = today

\* C19: the result of an update holds exactly the track IDs of previous and
\* of current, each once, so from one update to the next no track ID leaves
\* the cumulative playlist.
C19_HistoryIsAppendOnly ==
    /\ [](merges > 0 =>
            /\ IDsOf(new_struct.tracks)
                    = IDsOf(prev_struct.tracks) \cup IDsOf(playlist.tracks)
            /\ Cardinality(IDsOf(new_struct.tracks)) = Len(new_struct.tracks))
    /\ [][IDsOf(new_struct.tracks) \subseteq IDsOf(new_struct'.tracks)]_vars

\* C19 witness: after two updates the cumulative playlist still holds a
\* track that only the first playlist had, next to one only the second had.
C19_Witness ==
    /\ merges = 2
    /\ IDsOf(playlist.tracks) = {"t2"}
    /\ IDsOf(prev_struct.tracks) = {"t1"}
    /\ Len(new_struct.tracks) = 2

\* C20: no update changes date_first_scraped: it stays the day the
\* cumulative playlist was created, whatever today and playlist are merged.
C20_FirstScrapedNeverChanges ==
    [][new_struct'.date_first_scraped = new_struct.date_first_scraped]_vars

\* C20 witness: two updates on two later days, each with tracks, and
\* date_first_scraped is still an earlier day.
C20_Witness ==
    /\ merges = 2
    /\ today > prev_struct.date_first_scraped + 1
    /\ new_struct.date_first_scraped < today
    /\ Len(new_struct.tracks) = 2
    /\ \E i \in DOMAIN new_struct.tracks :
            new_struct.tracks[i].date_added > new_struct.date_first_scraped

\* ------------------------------------------------- claims about a run
\* A request starts: the caller hands a URL and a budget to the client.
RequestStarts == pc \in {"idle", "done"} /\ pc' = "loop"

\* The playlist whose get_playlist call was the last to end.
LastFetched ==
    LET order == SortedIDs(PlaylistOrder, registered)
    IN  order[Len(order) - Len(to_fetch)]

RECURSIVE Concatenation(_)
Concatenation(received) ==
    IF received = <<>> THEN <<>>
    ELSE Concatenation(SubSeq(received, 1, Len(received) - 1))
            \o received[Len(received)].batch

\* C11: every request that opens a playlist fetch carries a budget of 5
\* seconds of which nothing is spent, and every request of a page of
\* categories or of a category's playlists carries a budget of 3 seconds of
\* which nothing is spent, whatever earlier fetches have slept.
C11_BudgetsAreFresh ==
    [][RequestStarts =>
        /\ run_pc' = "playlist" =>
                request_retry_budget' = [given |-> TRUE,
                                         initial |-> PlaylistBudgetSeconds,
                                         remaining |-> PlaylistBudgetSeconds]
        /\ run_pc' \in {"categories", "category_playlists"} =>
                request_retry_budget' = [given |-> TRUE,
                                         initial |-> CategoryBudgetSeconds,
                                         remaining |-> CategoryBudgetSeconds]]_vars

\* C11 witness: the fetch of playlist a slept, spent its budget and was
\* skipped for it; the fetch of playlist b starts with 5 unspent seconds.
C11_Witness ==
    /\ run_pc = "playlist"
    /\ pc = "loop"
    /\ dispatches = 0
    /\ to_fetch = <<"b">>
    /\ unfetchable = <<(<<"a", "RequestRetryBudgetExceededError">>)>>
    /\ overall_remaining < OverallSeconds
    /\ request_retry_budget.remaining = PlaylistBudgetSeconds

\* C12: the pages of a track listing are requested in cursor order from the
\* start URL, one successful response each, every page but the last names
\* the next, and the traversal ends at the first page whose next link is
\* empty or absent; the tracks of the playlist are the pages' tracks, in
\* page order.
C12_PagesInCursorOrder ==
    /\ \A i \in DOMAIN pages :
            /\ i = 1 => \E playlist_id \in PlaylistIDs :
                            pages[i].url = _get_tracks_href(playlist_id)
            /\ i < Len(pages) =>
                    /\ pages[i].next \notin {"", None}
                    /\ pages[i + 1].url = pages[i].next
            /\ \A j \in DOMAIN pages : pages[j].url = pages[i].url => j = i
    /\ run_pc = "tracks" =>
            /\ Len(pages) = page
            /\ track_list = Concatenation(pages)
            /\ url = IF pages = <<>> THEN _get_tracks_href(Head(to_fetch))
                     ELSE pages[Len(pages)].next
            /\ pages # <<>> => pages[1].url = _get_tracks_href(Head(to_fetch))
    /\ (get_playlist_result = "return" /\ run_pc \in {"playlist", "fetched"}) =>
            /\ pages # <<>>
            /\ pages[1].url = _get_tracks_href(LastFetched)
            /\ pages[Len(pages)].next \in {"", None}
            /\ playlists[LastFetched] =
                    [stored |-> TRUE, tracks |-> Concatenation(pages)]

\* C12 witness: a first page with two tracks and a next link, a second page
\* with one track and an empty next link: three tracks and no third request.
C12_Witness ==
    /\ get_playlist_result = "return"
    /\ run_pc = "fetched"
    /\ Len(pages) = 2
    /\ pages[1].batch = <<"a1", "a2">>
    /\ pages[2].batch = <<"a3">>
    /\ pages[2].next = ""
    /\ playlists[LastFetched].tracks = <<"a1", "a2", "a3">>

\* C13: when the request of a page of tracks ends in an error, get_playlist
\* ends with that very error, no further page of tracks is requested, and
\* no playlist is stored for the pages already received; more generally a
\* get_playlist call that ends in an error leaves every playlist as it was
\* read at the start of the run.
C13_PageErrorAbortsTraversal ==
    [][(run_pc = "tracks" /\ pc = "done") =>
        /\ result.kind = "raise" =>
                /\ get_playlist_result' = result.error
                /\ run_pc' # "tracks"
                /\ pages' = pages
                /\ \/ unfetchable' = Append(unfetchable,
                                            <<Head(to_fetch), result.error>>)
                   \/ run_pc' = "failed" /\ run_error' = result.error
        /\ (run_pc' # "tracks" /\ get_playlist_result' # "return") =>
                /\ playlists' = playlists
                /\ playlists'[Head(to_fetch)] \in {NoPlaylist, PreviousPlaylist}]_vars

\* C13 witness: the first page of tracks of playlist a was received with
\* two tracks, the request of the second page ended in an error, and a is
\* still the playlist of the earlier run.
C13_Witness ==
    /\ get_playlist_result = "ResourceNotFoundError"
    /\ unfetchable = <<(<<"a", "ResourceNotFoundError">>)>>
    /\ Len(pages) = 1
    /\ pages[1].batch = <<"a1", "a2">>
    /\ playlists["a"] = PreviousPlaylist

\* ---------------------------------------- claims about the merged order
\* (lowercased name, lowercased artist names, duration, track ID) of a comes
\* before that of b.
SortKeyBefore(a, b) ==
    LET key(track) ==
            <<StrRank(lower(track.name)),
              [i \in DOMAIN track.artists |-> StrRank(lower(track.artists[i].name))],
              track.duration_ms, StrRank(get_id(track))>>
        RECURSIVE Before(_, _)
        Before(x, y) ==
            IF x = <<>> \/ y = <<>> THEN x = <<>> /\ y # <<>>
            ELSE IF Head(x) # Head(y) THEN Head(x) < Head(y)
            ELSE Before(Tail(x), Tail(y))
        ka == key(a)
        kb == key(b)
    IN  \/ ka[1] < kb[1]
        \/ ka[1] = kb[1] /\ Before(ka[2], kb[2])
        \/ ka[1] = kb[1] /\ ka[2] = kb[2] /\ ka[3] < kb[3]
        \/ ka[1] = kb[1] /\ ka[2] = kb[2] /\ ka[3] = kb[3] /\ ka[4] < kb[4]

StrictlyAscending(tracks) ==
    \A i, j \in DOMAIN tracks : i < j => SortKeyBefore(tracks[i], tracks[j])

\* The rearrangements of a list.
Rearranged(list) ==
    {[i \in DOMAIN list |-> list[p[i]]] :
        p \in {q \in [DOMAIN list -> DOMAIN list] :
                    \A i, j \in DOMAIN list : q[i] = q[j] => i = j}}

\* The update that produced new_struct, applied to the same previous and
\* current playlists with their tracks in another order.
Reordered(previous, current) ==
    update([prev_struct EXCEPT !.tracks = previous], today,
           [playlist EXCEPT !.tracks = current], new_struct.published_playlist_ids)

DistinctIDs(tracks) ==
    \A i, j \in DOMAIN tracks : get_id(tracks[i]) = get_id(tracks[j]) => i = j

\* C21 as stated: the merged list is strictly ascending by (lowercased name,
\* lowercased artist names, duration, track ID), and the update gives the
\* same list for every order of the tracks of previous and of current.
C21_Original ==
    merges > 0 =>
        /\ StrictlyAscending(new_struct.tracks)
        /\ \A previous \in Rearranged(prev_struct.tracks),
              current \in Rearranged(playlist.tracks) :
                Reordered(previous, current).tracks = new_struct.tracks

\* C21 amended: the merged list is strictly ascending by that key, so for
\* every order of the tracks of previous and of current the update lists the
\* same track IDs in the same order; the whole list is the same when no track
\* ID occurs twice in current.
C21_SortedWhateverTheOrder ==
    merges > 0 =>
        /\ StrictlyAscending(new_struct.tracks)
        /\ \A previous \in Rearranged(prev_struct.tracks),
              current \in Rearranged(playlist.tracks) :
                LET other == Reordered(previous, current).tracks
                IN  /\ [i \in DOMAIN other |-> get_id(other[i])]
                        = [i \in DOMAIN new_struct.tracks |->
                                get_id(new_struct.tracks[i])]
                    /\ DistinctIDs(playlist.tracks) => other = new_struct.tracks

\* C21 witness: previous lists t2 ("a") before t1 ("b"); current lists t1 and
\* t2 with new names, and the merged list has t1 ("A") before t2 ("B").
C21_Witness ==
    /\ merges = 1
    /\ Len(prev_struct.tracks) = 2
    /\ get_id(prev_struct.tracks[1]) = "t2"
    /\ Len(playlist.tracks) = 2
    /\ get_id(playlist.tracks[1]) = "t2"
    /\ get_id(playlist.tracks[2]) = "t1"
    /\ Len(new_struct.tracks) = 2
    /\ get_id(new_struct.tracks[1]) = "t1"
    /\ lower(new_struct.tracks[1].name) = "a"

\* The track the latest update was called with (before) and the one it
\* returned (after) for a track ID that is on the playlist both times.
Before(id) == Listed(prev_struct.tracks, id)
After(id) == Listed(new_struct.tracks, id)
StillOnPlaylist(id) ==
    /\ merges > 0
    /\ id \in IDsOf(prev_struct.tracks)
    /\ Before(id).date_removed = NoDate
    /\ id \in IDsOf(playlist.tracks)

\* C22 as stated: a track that no update found removed has had an earlier
\* date_added recorded by at most one update, and that update cleared its
\* asterisk.
C22_Original ==
    \A id \in TrackIDs :
        ~track_history[id].removed =>
            /\ track_history[id].lowered <= 1
            /\ (StillOnPlaylist(id) /\ After(id).date_added < Before(id).date_added)
                    => ~After(id).date_added_asterisk

\* C22 amended: while a track stays on the playlist its date_added never
\* increases from one update to the next; it is lowered by every update whose
\* playlist gives an earlier date than the recorded one (any number of
\* times), each of which clears the asterisk, and an update that does not
\* lower it keeps the asterisk as it was.
C22_DateAddedOnlyLowered ==
    \A id \in TrackIDs :
        StillOnPlaylist(id) =>
            /\ After(id).date_added <= Before(id).date_added
            /\ After(id).date_added =
                    Earlier(Before(id).date_added, Candidate(Listed(playlist.tracks, id)))
            /\ After(id).date_added < Before(id).date_added
                    => ~After(id).date_added_asterisk
            /\ After(id).date_added = Before(id).date_added
                    => After(id).date_added_asterisk = Before(id).date_added_asterisk

\* C22 witness: a track saved by an earlier run and never removed, whose
\* date_added two updates in a row have lowered, and which has no asterisk.
C22_Witness ==
    /\ merges = 2
    /\ ~track_history["t1"].removed
    /\ track_history["t1"].lowered = 2
    /\ StillOnPlaylist("t1")
    /\ Before("t1").date_added_asterisk = FALSE
    /\ After("t1").date_added < Before("t1").date_added
    /\ ~After("t1").date_added_asterisk

\* C23: in a cumulative playlist made by updates from a freshly created one,
\* a track has the asterisk only if its date_added is date_first_scraped and
\* it was on the first playlist merged: a track that came with a later
\* playlist, or whose date_added is another day, has no asterisk.
C23_AsteriskOnlyFromFirstScrape ==
    merges > 0 =>
        \A i \in DOMAIN new_struct.tracks :
            (\/ new_struct.tracks[i].date_added # new_struct.date_first_scraped
             \/ ~track_history[get_id(new_struct.tracks[i])].first)
                => ~new_struct.tracks[i].date_added_asterisk

\* C23 witness: the second update, on a later day, adds a track that gives
\* no added_at and was not on the first playlist: it has no asterisk.
C23_Witness ==
    /\ merges = 2
    /\ "t2" \in IDsOf(new_struct.tracks)
    /\ ~track_history["t2"].first
    /\ ~Listed(playlist.tracks, "t2").added_at.given
    /\ After("t2").date_added > new_struct.date_first_scraped
    /\ ~After("t2").date_added_asterisk
    /\ track_history["t1"].first

\* ------------------------------------------- claims about unique names
\* The members of the group of an original name, and the one with the most
\* followers (a missing count is 0), the lowest ID among equals.
Group(original_name) ==
    {playlist_id \in DOMAIN playlists :
        playlists[playlist_id].original_name = original_name}
Count(playlist_id) ==
    IF playlists[playlist_id].num_followers.given
    THEN playlists[playlist_id].num_followers.total ELSE 0
Outranks(x, y) ==
    \/ Count(x) > Count(y)
    \/ Count(x) = Count(y) /\ Rank(NamedOrder, x) < Rank(NamedOrder, y)
MostFollowed(original_name) ==
    CHOOSE x \in Group(original_name) :
        \A y \in Group(original_name) \ {x} : Outranks(x, y)

\* C24: when the duplicate-name step is over no two playlists of the batch
\* have the same unique_name, whether they were fetched or carried over from
\* the files of the previous run.
C24_UniqueNamesAreUnique ==
    run_pc = "named" =>
        \A x, y \in DOMAIN playlists :
            playlists[x].unique_name = playlists[y].unique_name => x = y

\* C25: when the duplicate-name step is over, in every group of two or more
\* playlists with the same original name the one with the most followers,
\* the lowest ID among equals, has the bare original name as unique_name.
C25_MostFollowedKeepsBareName ==
    run_pc = "named" =>
        \A original_name \in OriginalNames :
            Cardinality(Group(original_name)) > 1 =>
                playlists[MostFollowed(original_name)].unique_name = original_name

\* C26: an iteration for a member that is not the first of its group, the
\* members taken by followers descending then ID ascending, gives that
\* member alone the name "{original_name} ({n})" with the smallest n >= 2
\* that no other playlist of the batch has as unique_name at that moment;
\* and a name so given is never the unique_name of another playlist.
C26_FirstFreeSuffix ==
    /\ [](\A x \in renamed : \A y \in DOMAIN playlists \ {x} :
                playlists[y].unique_name # playlists[x].unique_name)
    /\ [][(run_pc = "duplicate_names" /\ Head(duplicates).i > 0) =>
            LET playlist_id == Head(duplicates).playlist_id
                original_name == playlists[playlist_id].original_name
                others == DOMAIN playlists \ {playlist_id}
                free(n) == \A other \in others :
                    playlists[other].unique_name
                        # original_name \o " (" \o ToString(n) \o ")"
            IN  /\ Head(duplicates).original_name = original_name
                /\ Cardinality({y \in Group(original_name) : Outranks(y, playlist_id)})
                        = Head(duplicates).i
                /\ \E n \in 2..(Cardinality(DOMAIN playlists) + 1) :
                        /\ playlists'[playlist_id].unique_name
                                = original_name \o " (" \o ToString(n) \o ")"
                        /\ free(n)
                        /\ \A m \in 2..(n - 1) : ~free(m)
                /\ playlists'[playlist_id].original_name = original_name
                /\ \A other \in others : playlists'[other] = playlists[other]]_vars

\* C26 witness: a and b are both called "name" and c is called "name (2)";
\* b, the second of its group, was given "name (3)".
C26_Witness ==
    /\ run_pc = "named"
    /\ DOMAIN playlists = {"a", "b", "c"}
    /\ playlists["a"].original_name = "name"
    /\ playlists["a"].unique_name = "name"
    /\ playlists["b"].original_name = "name"
    /\ playlists["b"].unique_name = "name (3)"
    /\ playlists["c"].original_name = "name (2)"
    /\ playlists["c"].unique_name = "name (2)"
    /\ renamed = {"b"}

\* ------------------------------------- claims about errors during a run
\* The request of a playlist fetch has ended in the error e.
FetchRaised(e) ==
    /\ run_pc \in {"playlist", "tracks"}
    /\ pc = "done"
    /\ result.kind = "raise"
    /\ result.error = e

\* The run goes on after the playlist at the head of to_fetch: the next
\* playlist is requested, or the fetch loop is over.
GoesOn ==
    /\ to_fetch' = Tail(to_fetch)
    /\ run_error' = None
    /\ IF Tail(to_fetch) = <<>>
       THEN run_pc' = "fetched"
       ELSE /\ run_pc' = "playlist"
            /\ pc' = "loop"
            /\ url' = _get_playlist_href(Head(Tail(to_fetch)))

\* C27: when a playlist fetch raises ResourceNotFoundError or
\* RequestRetryBudgetExceededError, the failure is logged and the run goes
\* on to the next playlist; the playlist keeps the snapshot of the previous
\* run when there is one, and is then still in the index and the metadata,
\* and is in no output when there is none.
C27_SkippedFetchKeepsPrevious ==
    /\ [](\A i \in DOMAIN unfetchable :
            LET playlist_id == unfetchable[i][1]
            IN  /\ playlists[playlist_id] \in {NoPlaylist, PreviousPlaylist}
                /\ playlist_id \in Indexed <=>
                        playlists[playlist_id] = PreviousPlaylist)
    /\ [][(FetchRaised("ResourceNotFoundError")
            \/ FetchRaised("RequestRetryBudgetExceededError")) =>
            /\ unfetchable' = Append(unfetchable, <<Head(to_fetch), result.error>>)
            /\ playlists' = playlists
            /\ Indexed' = Indexed
            /\ GoesOn]_vars

\* C27 witness: the fetch of playlist a, saved by the previous run, found no
\* such playlist, and the fetch of playlist b, never saved, spent its retry
\* budget; the loop is over, a is in the index with its earlier snapshot and
\* b is not.
C27_Witness ==
    /\ run_pc = "fetched"
    /\ unfetchable = <<(<<"a", "ResourceNotFoundError">>),
                       (<<"b", "RequestRetryBudgetExceededError">>)>>
    /\ playlists["a"] = PreviousPlaylist
    /\ Indexed = {"a"}

\* C28: when a playlist fetch raises RequestFailedError the error leaves the
\* fetch loop: the run ends in failure with that error, nothing is logged as
\* skipped, no playlist is stored, and the playlists after it are never
\* requested.
C28_RequestFailedEndsRun ==
    /\ [](run_pc = "failed" => run_error # None)
    /\ [][FetchRaised("RequestFailedError") =>
            /\ run_pc' = "failed"
            /\ run_error' = "RequestFailedError"
            /\ to_fetch' = to_fetch
            /\ unfetchable' = unfetchable
            /\ playlists' = playlists
            /\ pc' = pc
            /\ dispatches' = dispatches]_vars
    /\ [][run_pc # "failed"]_vars

\* C28 witness: the request of playlist a was answered 403; the run has
\* failed with RequestFailedError, with a and b still to fetch and neither
\* stored nor skipped.
C28_Witness ==
    /\ run_pc = "failed"
    /\ run_error = "RequestFailedError"
    /\ to_fetch = <<"a", "b">>
    /\ unfetchable = <<>>
    /\ Indexed = {}

\* A response to a request of a playlist fetch was received and its payload
\* found malformed: get_playlist ends with InvalidDataError.
InvalidDataRaised ==
    /\ run_pc \in {"playlist", "tracks"}
    /\ pc = "done"
    /\ result.kind = "return"
    /\ to_fetch' = Tail(to_fetch) \/ run_pc' = "failed"
    /\ get_playlist_result' = "InvalidDataError"

\* C29 as stated: a malformed payload during a playlist fetch raises
\* InvalidDataError without a retry, and the error ends the whole run.
C29_Original ==
    [][InvalidDataRaised =>
        /\ run_pc' = "failed"
        /\ run_error' = "InvalidDataError"]_vars

\* C29: a malformed payload during a playlist fetch raises InvalidDataError
\* on the response that carried it, with no second request of that URL, and
\* the error skips that playlist only: it is logged, the playlist stays as
\* the previous run left it, and the run goes on to the next playlist.
C29_InvalidDataSkipsPlaylist ==
    /\ [][InvalidDataRaised =>
            /\ unfetchable' = Append(unfetchable, <<Head(to_fetch), "InvalidDataError">>)
            /\ playlists' = playlists
            /\ GoesOn
            /\ pc' = "loop" => url' # url]_vars
    /\ [][(run_pc \in {"playlist", "tracks"} /\ pc = "done"
            /\ result.kind = "return" /\ ~InvalidDataRaised) =>
            \/ run_pc' = "tracks" /\ to_fetch' = to_fetch
            \/ get_playlist_result' = "return" /\ to_fetch' = Tail(to_fetch)]_vars

\* C29 witness: the playlist object of a came without a name; a is logged
\* as skipped for InvalidDataError and keeps its earlier snapshot, and the
\* request of b is under way.
C29_Witness ==
    /\ run_pc = "playlist"
    /\ pc = "loop"
    /\ to_fetch = <<"b">>
    /\ unfetchable = <<(<<"a", "InvalidDataError">>)>>
    /\ pages = <<>>
    /\ playlists["a"] = PreviousPlaylist

\* A request of the run has ended in OverallRetryBudgetExceededError.
OverallBudgetExceeded ==
    /\ run_pc \in {"user", "featured", "categories", "category_playlists",
                   "playlist", "tracks"}
    /\ pc = "done"
    /\ result.kind = "raise"
    /\ result.error = "OverallRetryBudgetExceededError"

\* C30: once a request of the run, during auto-registration or during a
\* playlist fetch, ends in OverallRetryBudgetExceededError, the run ends in
\* failure with that error and starts no further request.
C30_OverallBudgetIsHardStop ==
    /\ [][OverallBudgetExceeded =>
            /\ run_pc' = "failed"
            /\ run_error' = "OverallRetryBudgetExceededError"
            /\ pc' = pc]_vars
    /\ [][run_error = "OverallRetryBudgetExceededError" => ~RequestStarts]_vars

\* ------------------------------------------ claims about the bearer token
\* A request goes out to the upstream.
Dispatches == dispatches' = dispatches + 1

\* C31 as stated: no token is asked for before the first request, every
\* dispatch carries a token, and at every dispatch the calls made to the
\* token provider are one more than the 401 responses received before it.
C31_Original ==
    /\ [](pc = "idle" => token_calls = 0)
    /\ [][Dispatches =>
            /\ sent'.token # 0
            /\ token_calls = 1 + unauthorized]_vars

\* C31: no token is asked for before the first request or while one is
\* cached, every dispatch carries the cached token, at every dispatch the
\* tokens the provider has returned are one more than the 401 responses
\* received before it, and an outcome other than a 401 leaves the cached
\* token in place.
C31_TokenLazyAndCached ==
    /\ [](pc = "idle" => token_calls = 0)
    /\ [](tokens_granted = unauthorized + (IF access_token # 0 THEN 1 ELSE 0))
    /\ [][token_calls' # token_calls =>
            /\ pc = "loop"
            /\ access_token = 0
            /\ token_calls' = token_calls + 1]_vars
    /\ [][Dispatches =>
            /\ sent'.token # 0
            /\ sent'.token = access_token
            /\ tokens_granted = 1 + unauthorized
            /\ ~(response'.kind = "response" /\ response'.status = 401)
                    => access_token' = access_token]_vars

\* C31 witness: one call met a 500 and then a 401 and then succeeded: three
\* dispatches, two tokens, the second fetched after the 401 only.
C31_Witness ==
    /\ pc = "done"
    /\ result.kind = "return"
    /\ dispatches = 3
    /\ failures = 2
    /\ unauthorized = 1
    /\ token_calls = 2
    /\ tokens_granted = 2
    /\ sent.token = 2

\* ------------------------------------- claims about the per-request budget
\* Every failure charged to the per-request budget in hand cost 1 second.
OneSecondEach ==
    /\ request_retry_budget.given
    /\ request_retry_budget.initial - request_retry_budget.remaining
            = budget_use.failures

\* The dispatch meets a retryable failure of 1 second under a per-request
\* budget whose earlier failures cost 1 second each.
OneMoreSecond ==
    /\ Dispatches
    /\ OneSecondEach
    /\ Retryable(response')
    /\ Charge(response') = 1

\* get_playlist hands the budget of its first request to every request of a
\* page of tracks, spent as it is.
BudgetShared ==
    (RequestStarts /\ run_pc' = "tracks") =>
        /\ request_retry_budget' = request_retry_budget
        /\ budget_use' = budget_use

\* C32 as stated: under a per-request budget of B seconds and failures of 1
\* second each, the requests that share the budget make at most B - 1
\* retries, the B-th failure raises RequestRetryBudgetExceededError, and the
\* requests of one get_playlist share one budget.
C32_Original ==
    /\ [](OneSecondEach => budget_use.sleeps <= request_retry_budget.initial - 1)
    /\ [][OneMoreSecond =>
            (budget_use.failures + 1 = request_retry_budget.initial =>
                result'.error = "RequestRetryBudgetExceededError")]_vars
    /\ [][BudgetShared]_vars

\* C32: under a per-request budget of B seconds and failures of 1 second
\* each, the requests that share the budget make at most B - 1 retries; a
\* failure that exhausts the overall budget raises
\* OverallRetryBudgetExceededError and is not charged to the per-request
\* budget; otherwise the B-th failure raises RequestRetryBudgetExceededError
\* and every earlier one is retried after a sleep; the requests of one
\* get_playlist share one budget.
C32_RetriesWithinRequestBudget ==
    /\ [](OneSecondEach =>
            /\ budget_use.sleeps <= request_retry_budget.initial - 1
            /\ budget_use.sleeps <= budget_use.failures
            /\ budget_use.failures <= request_retry_budget.initial)
    /\ [][OneMoreSecond =>
            IF overall_remaining <= 1
            THEN /\ result'.error = "OverallRetryBudgetExceededError"
                 /\ request_retry_budget' = request_retry_budget
                 /\ budget_use' = budget_use
            ELSE /\ budget_use'.failures = budget_use.failures + 1
                 /\ IF budget_use'.failures >= request_retry_budget.initial
                    THEN result'.error = "RequestRetryBudgetExceededError"
                    ELSE pc' = "sleep"]_vars
    /\ [][BudgetShared]_vars

\* C32 witness: the only playlist was skipped at the fifth failure under its
\* budget of 5 seconds, after four sleeps, and the failures fell on more
\* than one of its requests.
C32_Witness ==
    /\ run_pc = "fetched"
    /\ registered = {"a"}
    /\ unfetchable = <<(<<"a", "RequestRetryBudgetExceededError">>)>>
    /\ budget_use = [failures |-> 5, sleeps |-> 4, slept |-> 4]
    /\ Len(pages) = 1
    /\ dispatches < 5

\* ------------------------------------ claims about the category listing
\* The request of a page of a category's playlists has ended in
\* ResourceNotFoundError.
CategoryNotFound ==
    /\ run_pc = "category_playlists"
    /\ pc = "done"
    /\ result.kind = "raise"
    /\ result.error = "ResourceNotFoundError"

\* seq is the end of the sorted sequence of the category IDs found.
SortedRest(seq) ==
    LET all == SortedIDs(CategoryOrder, category_ids)
    IN  /\ Len(seq) <= Len(all)
        /\ seq = SubSeq(all, Len(all) - Len(seq) + 1, Len(all))

\* C33: a ResourceNotFoundError on a page of a category's playlists ends the
\* listing of that category only: the playlist IDs collected so far, from
\* its earlier pages and from the other listings, are kept, the category
\* after it in sorted order is requested next from its first page, and
\* after the last category the IDs collected are returned and registered.
C33_NotFoundEndsOneCategory ==
    /\ [](run_pc = "category_playlists" =>
            categories_left # <<>> /\ SortedRest(categories_left))
    /\ [][CategoryNotFound =>
            IF Tail(categories_left) = <<>>
            THEN /\ run_pc' \in {"playlist", "fetched"}
                 /\ registered' = registered \cup playlist_ids
                 /\ run_error' = None
            ELSE /\ run_pc' = "category_playlists"
                 /\ categories_left' = Tail(categories_left)
                 /\ playlist_ids' = playlist_ids
                 /\ category_ids' = category_ids
                 /\ page' = 0
                 /\ pc' = "loop"
                 /\ url' = CategoryPlaylistsHref(Head(Tail(categories_left)))]_vars

\* C33 witness: the first page of the playlists of category c1 gave
\* playlist b and a next link, the request of the second page was answered
\* 404, and category c2 is still to visit.
C33_Witness ==
    /\ CategoryNotFound
    /\ page = 1
    /\ playlist_ids = {"b"}
    /\ category_ids = {"c1", "c2"}
    /\ categories_left = <<"c1", "c2">>

\* ------------------------------------------ claims about the time slept
\* C34: with Retry-After values of 0 or more, the seconds a client has slept
\* in all its requests are fewer than the 300 of the overall budget and
\* never more than what the overall budget was debited, and the seconds
\* slept under one per-request budget are fewer than its initial seconds and
\* never more than what it was debited.
C34_SleepsWithinBudgets ==
    /\ total_slept < OverallSeconds
    /\ total_slept <= OverallSeconds - overall_remaining
    /\ request_retry_budget.given =>
        /\ budget_use.slept < request_retry_budget.initial
        /\ budget_use.slept
                <= request_retry_budget.initial - request_retry_budget.remaining

\* C34 witness: a listing of the auto-registration slept 298 seconds for a
\* 429, and the fetch of a playlist slept the one second left of the overall
\* budget, under its own budget of 5 seconds.
C34_Witness ==
    /\ run_pc \in {"playlist", "tracks"}
    /\ pc = "loop"
    /\ total_slept = OverallSeconds - 1
    /\ overall_remaining = 1
    /\ budget_use = [failures |-> 1, sleeps |-> 1, slept |-> 1]
    /\ request_retry_budget.remaining = PlaylistBudgetSeconds - 1

\* --------------------------------- claims about which budget error is raised
\* The dispatch meets a retryable outcome under a per-request budget.
BudgetedFailure ==
    /\ Dispatches
    /\ request_retry_budget.given
    /\ Retryable(response')

\* C35: when a retryable outcome is charged more than is left of the overall
\* budget and more than is left of the per-request budget, the call raises
\* OverallRetryBudgetExceededError and the per-request budget is not
\* debited; when a call raises RequestRetryBudgetExceededError the overall
\* budget was debited and still has seconds left.
C35_OverallErrorComesFirst ==
    [][BudgetedFailure =>
        LET seconds == Charge(response')
        IN  /\ (/\ overall_remaining - seconds <= 0
                /\ request_retry_budget.remaining - seconds <= 0) =>
                    /\ pc' = "done"
                    /\ result'.error = "OverallRetryBudgetExceededError"
                    /\ request_retry_budget' = request_retry_budget
            /\ result'.error = "RequestRetryBudgetExceededError" =>
                    /\ overall_remaining' = overall_remaining - seconds
                    /\ overall_remaining' > 0
                    /\ request_retry_budget'.remaining
                            = request_retry_budget.remaining - seconds
                    /\ request_retry_budget'.remaining <= 0]_vars

\* C35 witness: a 429 with a Retry-After of 297 seconds met an overall
\* budget of 2 seconds and an unspent per-request budget of 3 seconds: the
\* call raised OverallRetryBudgetExceededError and the 3 seconds are intact.
C35_Witness ==
    /\ pc = "done"
    /\ result.error = "OverallRetryBudgetExceededError"
    /\ response.status = 429
    /\ response.retry_after = OverallSeconds - 3
    /\ overall_remaining = 2 - (OverallSeconds - 2)
    /\ request_retry_budget = RetryBudget(CategoryBudgetSeconds)

\* ------------------------------------------ claims about retried pages
\* The page added last to the pages received.
LastPage(received) == received[Len(received)]

\* C36: while a page of tracks is requested, failed attempts, sleeps and
\* token fetches leave the tracks collected, the pages received and the
\* cursor as they are; the successful response adds its page once, after
\* the pages before it, and only then does the cursor move to its next
\* link; the playlist returned holds the tracks of the pages in page order.
C36_RetryKeepsPages ==
    /\ [](run_pc = "tracks" =>
            /\ track_list = Concatenation(pages)
            /\ Len(pages) = page)
    /\ [][(run_pc = "tracks" /\ pc # "done") =>
            /\ run_pc' = "tracks"
            /\ UNCHANGED <<track_list, pages, page, url, to_fetch, playlists>>]_vars
    /\ [][(run_pc = "tracks" /\ pc = "done" /\ result.kind = "return"
                /\ run_pc' = "tracks") =>
            /\ Len(pages') = Len(pages) + 1
            /\ SubSeq(pages', 1, Len(pages)) = pages
            /\ LastPage(pages').url = url
            /\ track_list' = track_list \o LastPage(pages').batch
            /\ url' = LastPage(pages').next]_vars
    /\ [][(run_pc = "tracks" /\ pc = "done" /\ to_fetch' # to_fetch
                /\ get_playlist_result' = "return") =>
            /\ Len(pages') = Len(pages) + 1
            /\ SubSeq(pages', 1, Len(pages)) = pages
            /\ LastPage(pages').url = url
            /\ playlists'[Head(to_fetch)].tracks
                    = track_list \o LastPage(pages').batch]_vars

\* C36 witness: the fetch of the only playlist failed four times in all,
\* twice on the request of its second page, and returned the two tracks of
\* the first page followed by the track of the second.
C36_Witness ==
    /\ run_pc = "fetched"
    /\ registered = {"a"}
    /\ get_playlist_result = "return"
    /\ budget_use.sleeps = 4
    /\ sleeps = 2
    /\ dispatches = 3
    /\ Len(pages) = 2
    /\ pages[1].batch = <<"a1", "a2">>
    /\ pages[2].batch = <<"a3">>
    /\ playlists["a"].tracks = <<"a1", "a2", "a3">>

\* ------------------------------- claims about merging a snapshot again
\* C37: after an update, updating its result with the same playlist on the
\* same or any later day gives the same track list, whatever reference list
\* is handed in.
C37_SameSnapshotChangesNoTrack ==
    merges > 0 =>
        \A later \in today..MaxDate, ids \in PublishedPlaylistIDs :
            update(new_struct, later, playlist, ids).tracks = new_struct.tracks

\* C37 witness: on a day that is not the last, the playlist merged holds one
\* track without an added_at, dated that day by the update, and the other
\* track of the archive has just been found gone and is dated that day too.
C37_Witness ==
    /\ merges = 1
    /\ today < MaxDate
    /\ IDsOf(playlist.tracks) = {"t1"}
    /\ ~Listed(playlist.tracks, "t1").added_at.given
    /\ Len(new_struct.tracks) = 2
    /\ Listed(new_struct.tracks, "t1").date_added = today
    /\ Listed(new_struct.tracks, "t2").date_removed = today
    /\ Listed(prev_struct.tracks, "t2").date_removed = NoDate

\* C38: a track of the result of an update has the asterisk only if the
\* track of the same ID in the cumulative playlist updated had it.
C38_MergeNeverSetsAsterisk ==
    merges > 0 =>
        \A i \in DOMAIN new_struct.tracks :
            new_struct.tracks[i].date_added_asterisk =>
                /\ get_id(new_struct.tracks[i]) \in IDsOf(prev_struct.tracks)
                /\ Listed(prev_struct.tracks,
                          get_id(new_struct.tracks[i])).date_added_asterisk

\* The consequence C38 draws, under HistorySpec: a cumulative playlist made
\* only by updates of a freshly created one holds no asterisked track.
C38_FreshHistoryHasNoAsterisk ==
    \A i \in DOMAIN new_struct.tracks : ~new_struct.tracks[i].date_added_asterisk

\* C38 witness: the saved playlist held t1 with the asterisk and no t2; the
\* playlist merged has both, t2 without an added_at. t1 keeps its asterisk
\* and t2, dated today, gets none.
C38_Witness ==
    /\ merges = 1
    /\ IDsOf(prev_struct.tracks) = {"t1"}
    /\ Listed(prev_struct.tracks, "t1").date_added_asterisk
    /\ IDsOf(playlist.tracks) = {"t1", "t2"}
    /\ ~Listed(playlist.tracks, "t2").added_at.given
    /\ Listed(new_struct.tracks, "t1").date_added_asterisk
    /\ Listed(new_struct.tracks, "t2").date_added = today
    /\ ~Listed(new_struct.tracks, "t2").date_added_asterisk

\* ----------------------------------------- claims about the output stage
\* C39: while a playlist is still to be fetched or a request is being made,
\* and after an error has ended the run, every output file is as the previous
\* run left it; once a file has been updated no playlist is left to fetch
\* and no error has ended the run.
C39_FetchesFinishBeforeOutputs ==
    /\ run_pc \notin {"updating", "updated"} => files = PreviousFiles
    /\ files # PreviousFiles => to_fetch = <<>> /\ run_error = None

\* C39 witness: playlist a was fetched and stored, then the fetch of b was
\* ended by an error the fetch loop does not catch, and the run with it.
C39_Witness ==
    /\ run_pc = "failed"
    /\ run_error = "RequestFailedError"
    /\ to_fetch = <<"b">>
    /\ playlists["a"].stored
    /\ playlists["a"] # PreviousPlaylist
    /\ files = PreviousFiles

====
